---------------------------- MODULE Spec2Model ----------------------------
(***************************************************************************)
(* A model of the manager-side SNMP session of node-net-snmp              *)
(* (src/src/session.mjs and the object parser, src/unnamed/part_000).     *)
(*                                                                         *)
(* Spec      : the request registry, the retry timers, the asynchronous   *)
(*             datagram sends, the inbound datagram handler (onMsg) with  *)
(*             the SNMPv3 report handling, and the socket close.          *)
(* BulkSpec  : the GetBulk feed callback applied to bounded requests and  *)
(*             replies.                                                    *)
(*                                                                         *)
(* Node runs every handler to completion, so each handler is one action.  *)
(* dgram.send completes asynchronously: the send and its completion       *)
(* callback are two steps, and other handlers may run in between.         *)
(***************************************************************************)
EXTENDS Integers, Sequences, FiniteSets, TLC

(***************************************************************************)
(* Bounds of the model.                                                    *)
(***************************************************************************)
MaxReqs == 2
MaxV3Reqs == 3        \* Req objects created in one behaviour
MaxRetries == 1     \* largest session retry count explored
MaxReqLen == 2      \* longest GetBulk request varbind list
MaxReplyLen == 4    \* longest GetBulk reply varbind list
MaxBackoffRetries == 2  \* largest retry count of a session with backoff

(***************************************************************************)
(* Program constants (src/src/constants.mjs).                              *)
(***************************************************************************)
Version1 == 0
Version2c == 1
Version3 == 3

\* The request ids generateId (session.mjs 41-44) draws from, scaled down to
\* two values: what matters is whether two ids are equal.
Ids == {0, 1}
ReqIdx == 1 .. (IF MaxV3Reqs > MaxReqs THEN MaxV3Reqs ELSE MaxReqs)
Versions == {Version2c, Version3}

(***************************************************************************)
(* Strings are sequences of character codes; the JavaScript string         *)
(* operations the session applies to OIDs.                                 *)
(***************************************************************************)
\* s.indexOf(p) === 0
StartsWith(s, p) == Len(s) >= Len(p) /\ SubSeq(s, 1, Len(p)) = p

\* The 1-based positions at which p occurs in s.
Occurrences(s, p) ==
    {i \in 1 .. Len(s) - Len(p) + 1 : SubSeq(s, i, i + Len(p) - 1) = p}

\* s.replace(p, ''): the first occurrence of p is removed, if there is one.
RemoveFirst(s, p) ==
    IF Occurrences(s, p) = {} THEN s
    ELSE LET i == CHOOSE k \in Occurrences(s, p) :
                      \A j \in Occurrences(s, p) : k <= j
         IN  SubSeq(s, 1, i - 1) \o SubSeq(s, i + Len(p), Len(s))

\* s.replace(/\.0$/, '')
RemoveFinalDotZero(s) ==
    IF Len(s) >= 2 /\ SubSeq(s, Len(s) - 1, Len(s)) = <<46, 48>>
    THEN SubSeq(s, 1, Len(s) - 2)
    ELSE s

\* constants.mjs 105: '1.3.6.1.6.3.15.1.1'
UsmStatsBase ==
    <<49, 46, 51, 46, 54, 46, 49, 46, 54, 46, 51, 46, 49, 53, 46, 49, 46, 49>>

\* constants.mjs 106-113: the keys '1' .. '6'.  (expandConstantObject adds
\* the names as keys too; no OID string equals one of them.)
UsmStats ==
    <<49>> :> "Unsupported Security Level" @@
    <<50>> :> "Not In Time Window" @@
    <<51>> :> "Unknown User Name" @@
    <<52>> :> "Unknown Engine ID" @@
    <<53>> :> "Wrong Digest (incorrect password, community or key)" @@
    <<54>> :> "Decryption Error"

\* constants.mjs 157-170 after expandConstantObject: name -> number.
ResponseInvalidCode ==
    [EIp4AddressSize |-> 1, EUnknownObjectType |-> 2, EUnknownPduType |-> 3,
     ECouldNotDecrypt |-> 4, EAuthFailure |-> 5, EReqResOidNoMatch |-> 6,
     EOutOfOrder |-> 8, EVersionNoMatch |-> 9, ECommunityNoMatch |-> 10,
     EUnexpectedReport |-> 11, EResponseNotHandled |-> 12,
     EUnexpectedResponse |-> 13]

\* What reading a missing property yields.
undefined == 0 - 1

\* ResponseInvalidCode.<name>
CodeOf(name) ==
    IF name \in DOMAIN ResponseInvalidCode THEN ResponseInvalidCode[name]
    ELSE undefined

(***************************************************************************)
(* What a response callback is called with: an error object (its name,     *)
(* message and, for a ResponseInvalidError, code) or the varbinds.         *)
(***************************************************************************)
Error(name, message) == [name |-> name, message |-> message, code |-> undefined]

ResponseInvalidError(message, code) ==
    [name |-> "ResponseInvalidError", message |-> message, code |-> code]

RequestFailedError(message) == Error("RequestFailedError", message)

RequestTimedOutError(message) == Error("RequestTimedOutError", message)

\* callback(null, varbinds)
Delivered == Error("none", "")

\* The error dgram.send reports, or toBuffer throws.
SendError == Error("Error", "send")

\* session.mjs 389: new Error('Socket forcibly closed')
SocketClosed == Error("Error", "Socket forcibly closed")

VARIABLES
    version,                \* Session.version, fixed by the factory
    retries,                \* Session.retries
    timeout,                \* Session.timeout, in milliseconds
    backoff,                \* Session.backoff, a ratio
    reqs,                   \* Session.reqs: id -> Req object (0: no entry)
    reqCount,               \* Session.reqCount
    refd,                   \* whether the socket is ref'd (dgram.ref/unref)
    closed,                 \* whether the socket has been closed
    msgSecurityParameters,  \* Session.msgSecurityParameters (NoParams: unset)
    req,                    \* the Req objects (those still reachable)
    op,                     \* per Req object: the caller's operation it serves
    parent,                 \* per Req object: the Req whose report re-sent it
    nreq,                   \* how many Req objects have been created
    cbs,                    \* per Req object: summary of its responseCb calls
    sent                    \* per Req object: datagrams transmitted for it

svars == <<version, retries, timeout, backoff, reqs, reqCount, refd, closed,
           msgSecurityParameters, req, op, parent, nreq, cbs, sent>>

VARIABLES
    backwardsGetNexts,        \* Session.backwardsGetNexts
    reportOidMismatchErrors,  \* Session.reportOidMismatchErrors
    nonRepeaters,             \* getBulk's nonRepeaters argument
    bulkReq,                  \* req.message.pdu.varbinds of a GetBulk request
    bulkReply,                \* message.pdu.varbinds of the reply
    bulkOut                   \* what the feed callback did with the reply

bvars == <<backwardsGetNexts, reportOidMismatchErrors, nonRepeaters,
           bulkReq, bulkReply, bulkOut>>

VARIABLES
    call,                     \* a callback under study: its name and arguments
    result                    \* what it did (kind "none": not yet called)

fvars == <<call, result>>

vars == <<svars, bvars, fvars>>

\* Ratios n / d of integers, for the backoff factor and what it multiplies.
Ratio(n, d) == [n |-> n, d |-> d]

Unit == Ratio(1, 1)

AtLeastOne(x) == x.n >= x.d

Times(x, y) == Ratio(x.n * y.n, x.d * y.d)

\* session.mjs 59: this.timeout = options.timeout ? options.timeout : 5000
\* (0: the option is not given).
DefaultTimeout == 5000

SessionTimeout(option) == IF option # 0 THEN option ELSE DefaultTimeout

\* session.mjs 60: this.backoff = options.backoff >= 1.0 ? options.backoff
\* : 1.0 (0 / 1: the option is not given, or 0).
SessionBackoff(option) == IF AtLeastOne(option) THEN option ELSE Unit

\* Security parameters: whether there are any, whose engine id they name
\* (the agent's, from a Report, or this.engine's), engine boots and time.
NoParams == [set |-> FALSE, engineID |-> "none", boots |-> 0, time |-> 0]

\* A slot of `req` no Req object has been created in yet.
NoReq == [id |-> 0, retries |-> 0, phase |-> "none", kind |-> "none",
          originalPdu |-> FALSE, allowReport |-> FALSE,
          port |-> "none", pduClass |-> "none",
          msgSecurityParameters |-> NoParams,
          timeout |-> Ratio(0, 1), backoff |-> Ratio(0, 1),
          timer |-> Ratio(0, 1)]

\* A Req object nothing refers to any more: it is not in the registry, has no
\* timer armed and no send in flight.
Gone == [NoReq EXCEPT !.phase = "gone"]

(***************************************************************************)
(* The mutable session state a handler works on, threaded through the      *)
(* operators below in the order the code executes its statements.          *)
(***************************************************************************)
Cur == [reqs |-> reqs, reqCount |-> reqCount, refd |-> refd,
        msgSecurityParameters |-> msgSecurityParameters,
        req |-> req, op |-> op, parent |-> parent, nreq |-> nreq,
        cbs |-> cbs, sent |-> sent, dlv |-> <<>>]

\* Whether Req object r is the registry's entry for its id.
Registered(S, r) == S.req[r].phase \notin {"none", "gone"} /\ S.reqs[S.req[r].id] = r

\* The Req objects left unreachable when a handler returns are dropped; what
\* their operation was is remembered.
Collect(S) ==
    [S EXCEPT !.req = [r \in ReqIdx |->
        IF S.req[r].phase = "idle" /\ ~Registered(S, r)
        THEN [Gone EXCEPT !.pduClass = S.req[r].pduClass]
        ELSE S.req[r]]]

Commit(T) ==
    LET S == Collect(T) IN
    /\ reqs' = S.reqs
    /\ reqCount' = S.reqCount
    /\ refd' = S.refd
    /\ msgSecurityParameters' = S.msgSecurityParameters
    /\ req' = S.req
    /\ op' = S.op
    /\ parent' = S.parent
    /\ nreq' = S.nreq
    /\ cbs' = S.cbs
    /\ sent' = S.sent
    /\ UNCHANGED <<bvars, fvars>>

(***************************************************************************)
(* req.responseCb(...).  S.dlv lists the callbacks the running handler has *)
(* invoked so far: on which Req object, with which outcome, and whether    *)
(* the object was the registry's entry for its id when the callback ran.   *)
(* Across handlers the state keeps a summary per Req object:               *)
(*   n        how many times its callback has run (Many: twice or more)    *)
(*   timedOut whether it has been given a RequestTimedOutError             *)
(*   reg      whether it was ever called while the object was registered   *)
(*   mismatch whether it has been given a version or community mismatch    *)
(***************************************************************************)
Many == 2

NoCbs == [n |-> 0, timedOut |-> FALSE, reg |-> FALSE, mismatch |-> FALSE]

responseCb(S, r, out) ==
    [S EXCEPT !.cbs[r] = [n |-> IF @.n < Many THEN @.n + 1 ELSE Many,
                          timedOut |-> @.timedOut \/ out.name = "RequestTimedOutError",
                          reg |-> @.reg \/ Registered(S, r),
                          mismatch |-> @.mismatch \/
                              out.code \in {CodeOf("EVersionNoMatch"),
                                            CodeOf("ECommunityNoMatch")}],
              !.dlv = Append(@, [r |-> r, out |-> out, reg |-> Registered(S, r)])]

\* unregisterRequest with the unref test off by one (reqCount < 0).
unregisterRequest_LateUnref(S, id) ==
    LET r == S.reqs[id] IN
    IF r # 0
    THEN LET n == S.reqCount - 1 IN
         [S EXCEPT !.reqs[id] = 0,
                   !.req[r].phase = IF @ = "timer" THEN "idle" ELSE @,
                   !.reqCount = n,
                   !.refd = IF n < 0 THEN FALSE ELSE @]
    ELSE S

\* unregisterRequest counting down whether or not the id has an entry.
unregisterRequest_Unguarded(S, id) ==
    LET r == S.reqs[id]
        n == S.reqCount - 1
    IN  IF r # 0
        THEN [S EXCEPT !.reqs[id] = 0,
                       !.req[r].phase = IF @ = "timer" THEN "idle" ELSE @,
                       !.reqCount = n,
                       !.refd = IF n <= 0 THEN FALSE ELSE @]
        ELSE [S EXCEPT !.reqCount = n, !.refd = IF n <= 0 THEN FALSE ELSE @]

(***************************************************************************)
(* Session.unregisterRequest (session.mjs 687-699).  The record returned   *)
(* to the caller is S.reqs[id] read before the call (0 stands for null).   *)
(* clearTimeout disarms the entry's timer if it is still pending.          *)
(***************************************************************************)
unregisterRequest(S, id) ==
    LET r == S.reqs[id] IN
    IF r # 0
    THEN LET n == S.reqCount - 1 IN
         [S EXCEPT !.reqs[id] = 0,
                   !.req[r].phase = IF @ = "timer" THEN "idle" ELSE @,
                   !.reqCount = n,
                   !.refd = IF n <= 0 THEN FALSE ELSE @]
    ELSE S

(***************************************************************************)
(* Session.registerRequest (session.mjs 474-489): the entry is stored only *)
(* if the id is free; the timer is armed on the Req object in either case, *)
(* with req.timeout, which req.backoff then multiplies.                    *)
(***************************************************************************)
registerRequest_AlwaysCounts(S, r) ==
    LET id == S.req[r].id
        S1 == [S EXCEPT !.reqs[id] = IF @ = 0 THEN r ELSE @,
                        !.refd = IF S.reqCount <= 0 THEN TRUE ELSE @,
                        !.reqCount = @ + 1]
    IN  [S1 EXCEPT !.req[r].phase = "timer",
                   !.req[r].timer = S.req[r].timeout,
                   !.req[r].timeout = IF AtLeastOne(S.req[r].backoff)
                                      THEN Times(@, S.req[r].backoff)
                                      ELSE @]

registerRequest_BackoffFirst(S, r) ==
    LET id == S.req[r].id
        S1 == IF S.reqs[id] = 0
              THEN [S EXCEPT !.reqs[id] = r,
                             !.refd = IF S.reqCount <= 0 THEN TRUE ELSE @,
                             !.reqCount = @ + 1]
              ELSE S
        t == IF AtLeastOne(S.req[r].backoff)
             THEN Times(S.req[r].timeout, S.req[r].backoff)
             ELSE S.req[r].timeout
    IN  [S1 EXCEPT !.req[r].phase = "timer",
                   !.req[r].timer = t,
                   !.req[r].timeout = t]

registerRequest(S, r) ==
    LET id == S.req[r].id
        S1 == IF S.reqs[id] = 0
              THEN [S EXCEPT !.reqs[id] = r,
                             !.refd = IF S.reqCount <= 0 THEN TRUE ELSE @,
                             !.reqCount = @ + 1]
              ELSE S
    IN  [S1 EXCEPT !.req[r].phase = "timer",
                   !.req[r].timer = S.req[r].timeout,
                   !.req[r].timeout = IF AtLeastOne(S.req[r].backoff)
                                      THEN Times(@, S.req[r].backoff)
                                      ELSE @]

(***************************************************************************)
(* Session.send (session.mjs 491-505), up to the call of dgram.send.       *)
(* `throws`: toBuffer or dgram.send throws, and the catch clause calls the *)
(* response callback.  Otherwise the datagram is in flight and SendDone    *)
(* models the completion callback.                                         *)
(***************************************************************************)
send(S, r, throws) ==
    IF throws
    THEN responseCb([S EXCEPT !.req[r].phase = "idle"], r, SendError)
    ELSE [S EXCEPT !.req[r].phase = "sending"]

\* The options of an operation, as far as the session reads them: the port
\* ("none": not given).
NoOptions == [port |-> "none"]

\* new legacy.Req(session, message, feedCb, responseCb, options): the pending
\* request record starts with the session's retry count; its id is the
\* message's request id; its destination port is the options' port if one
\* is given and the session's port otherwise.  The constructor is not part
\* of src/.  pduClass is the class of the PDU the operation is about
\* (req.message.pdu, or originalPdu for a discovery), and
\* msgSecurityParameters the security parameters its message was built with
\* (none but for createRequestV3).  The record starts with the session's
\* timeout and backoff; timer is the delay its timer was last armed with.
Req(id, kind, pduClass, options) ==
    [id |-> id, retries |-> retries, phase |-> "idle", kind |-> kind,
     originalPdu |-> FALSE, allowReport |-> FALSE,
     port |-> IF options.port # "none" THEN options.port ELSE "port",
     pduClass |-> pduClass,
     msgSecurityParameters |-> NoParams,
     timeout |-> Ratio(timeout, 1), backoff |-> backoff,
     timer |-> Ratio(0, 1)]

\* The Req object q, as assigned by its creator, is handed to Session.send.
\* o is the caller's operation (0: a new one) and p the Req object whose
\* report caused the re-send (0: none).
newReq(S, q, o, p, throws) ==
    LET r == S.nreq + 1
        S1 == [S EXCEPT !.nreq = r,
                        !.op[r] = IF o = 0 THEN r ELSE o,
                        !.parent[r] = p,
                        !.req[r] = q]
    IN  send(S1, r, throws)

\* Session.sendV3Req with req.allowReport always set.
sendV3Req_Allows(S, id, o, pduClass, options, port, allowReport, p, throws) ==
    newReq(S, [Req(id, "v3", pduClass, options) EXCEPT
                   !.msgSecurityParameters = S.msgSecurityParameters,
                   !.port = port,
                   !.originalPdu = TRUE,
                   !.allowReport = TRUE],
           o, p, throws)

\* Session.sendV3Req (session.mjs 701-708).
sendV3Req(S, id, o, pduClass, options, port, allowReport, p, throws) ==
    newReq(S, [Req(id, "v3", pduClass, options) EXCEPT
                   !.msgSecurityParameters = S.msgSecurityParameters,
                   !.port = port,
                   !.originalPdu = TRUE,
                   !.allowReport = allowReport],
           o, p, throws)

\* Session.sendV3Discovery (session.mjs 710-717).
sendV3Discovery(S, id, pduClass, options, throws) ==
    newReq(S, [Req(id, "discovery", pduClass, options) EXCEPT
                   !.originalPdu = TRUE,
                   !.allowReport = TRUE],
           0, 0, throws)

\* Session.simpleGet with a discovery exchange before every v3 operation.
simpleGet_AlwaysDiscovers(S, id, pduClass, options, throws) ==
    IF version = Version3
    THEN sendV3Discovery(S, id, pduClass, options, throws)
    ELSE newReq(S, Req(id, "community", pduClass, options), 0, 0, throws)

\* Session.simpleGet (session.mjs 555-568).
simpleGet(S, id, pduClass, options, throws) ==
    IF version = Version3
    THEN IF S.msgSecurityParameters.set
         THEN sendV3Req(S, id, 0, pduClass, options, "port", TRUE, 0, throws)
         ELSE sendV3Discovery(S, id, pduClass, options, throws)
    ELSE newReq(S, Req(id, "community", pduClass, options), 0, 0, throws)

\* responseCb(...) of an operation that has created no Req object.
callback(S, out) ==
    [S EXCEPT !.dlv = Append(@, [r |-> 0, out |-> out, reg |-> FALSE])]

\* Session.inform with SNMPv1 refused at once (the test is on Version2c).
inform_RefusesV2c(S, id, throws) ==
    IF version = Version2c
    THEN callback(S, Error("RequestInvalidError", "Inform not allowed for SNMPv1"))
    ELSE simpleGet(S, id, "InformRequest", [port |-> "trapPort"], throws)

\* Session.inform (session.mjs 316-386).
inform(S, id, throws) ==
    IF version = Version1
    THEN callback(S, Error("RequestInvalidError", "Inform not allowed for SNMPv1"))
    ELSE simpleGet(S, id, "InformRequest", [port |-> "trapPort"], throws)

\* Session.trap (session.mjs 632-685): a plain object with the message, the
\* callback and the trap port goes to send with noWait set.  Its id is
\* never read.  A v3 trap is built with this.engine's id, boots 0 and time 0.
trap(S, throws) ==
    newReq(S, [NoReq EXCEPT !.phase = "idle", !.kind = "trap",
                            !.port = "trapPort", !.pduClass = "Trap",
                            !.msgSecurityParameters =
                                IF version = Version3
                                THEN [set |-> TRUE, engineID |-> "engine",
                                      boots |-> 0, time |-> 0]
                                ELSE NoParams],
           0, 0, throws)

(***************************************************************************)
(* Session.cancelRequests (session.mjs 87-93): for (const id in this.reqs) *)
(* visits the integer keys in ascending order.                             *)
(***************************************************************************)
RECURSIVE cancelRequests(_, _, _)
cancelRequests(S, ids, error) ==
    IF ids = {} THEN S
    ELSE LET id == CHOOSE i \in ids : \A j \in ids : i <= j
             r  == S.reqs[id]
         IN  IF r = 0
             THEN cancelRequests(S, ids \ {id}, error)
             ELSE cancelRequests(
                      responseCb(unregisterRequest(S, S.req[r].id), r, error),
                      ids \ {id}, error)

(***************************************************************************)
(* Inbound datagrams, as far as onMsg tells them apart:                     *)
(*   secFail          processIncomingSecurity rejects the message          *)
(*   versionNoMatch   message.version differs from the request's           *)
(*   communityNoMatch message.community differs from the request's         *)
(*   report           a Report PDU with engine boots, engine time and the  *)
(*                    OID of its first varbind (<<>>: no varbind)          *)
(*   getResponse      a GetResponse PDU; `feed` tells what the request's   *)
(*                    onResponse does with it: errorStatus > 0, the feed   *)
(*                    callback accepts it (ok) or rejects it (invalid), or *)
(*                    the feed callback throws (see getBulkFeedCb)         *)
(*   unknownPdu       any other PDU type                                   *)
(***************************************************************************)
Msg(kind, boots, time, oid, feed) ==
    [kind |-> kind, boots |-> boots, time |-> time, oid |-> oid, feed |-> feed]

\* The first-varbind OIDs of the bounded reports: none, '1.3', and
\* UsmStatsBase followed by '', '.3', '.3.0', '.5.0', '.7.0', '.3.1', '0.0'.
ReportOids ==
    {<<>>, <<49, 46, 51>>} \cup
    {UsmStatsBase \o x :
        x \in {<<>>, <<46, 51>>, <<46, 51, 46, 48>>, <<46, 53, 46, 48>>,
               <<46, 55, 46, 48>>, <<46, 51, 46, 49>>, <<48, 46, 48>>}}

Msgs ==
    {Msg(k, 0, 0, <<>>, "none") :
        k \in {"versionNoMatch", "unknownPdu"}
              \cup (IF version = Version3 THEN {"secFail"} ELSE {"communityNoMatch"})}
    \cup {Msg("report", b, t, o, "none") : b \in 0..1, t \in 0..1, o \in ReportOids}
    \cup {Msg("getResponse", 0, 0, <<>>, f) :
            f \in {"errorStatus", "ok", "invalid", "throws"}}

\* Session.onSimpleGetResponse (session.mjs 457-472) followed by req.feedCb.
onSimpleGetResponse(S, r, m) ==
    CASE m.feed = "errorStatus" ->
             responseCb(S, r, RequestFailedError("statusString"))
      [] m.feed = "ok"          -> responseCb(S, r, Delivered)
      [] m.feed = "invalid"     ->
             responseCb(S, r, ResponseInvalidError("invalid response",
                                                   CodeOf("EReqResOidNoMatch")))
      [] OTHER                  -> S

\* userSecurityModelError leaving a final '.0' on the suffix.
userSecurityModelError_KeepDotZero(S, r, oid) ==
    LET oidSuffix == RemoveFirst(oid, UsmStatsBase \o <<46>>)
        errorType == IF oidSuffix \in DOMAIN UsmStats THEN UsmStats[oidSuffix]
                     ELSE "Unexpected Report PDU"
    IN  responseCb(S, r, ResponseInvalidError(errorType, CodeOf("EAuthFailure")))

\* Session.userSecurityModelError (session.mjs 719-723).
userSecurityModelError(S, r, oid) ==
    LET oidSuffix == RemoveFinalDotZero(RemoveFirst(oid, UsmStatsBase \o <<46>>))
        errorType == IF oidSuffix \in DOMAIN UsmStats THEN UsmStats[oidSuffix]
                     ELSE "Unexpected Report PDU"
    IN  responseCb(S, r, ResponseInvalidError(errorType, CodeOf("EAuthFailure")))

\* message.processIncomingSecurity(this.user, req.responseCb) returning false:
\* it has reported the failure to the response callback.
processIncomingSecurity(S, r) ==
    responseCb(S, r, ResponseInvalidError("security", CodeOf("EAuthFailure")))

(***************************************************************************)
(* Session.onMsg (session.mjs 397-455) for a datagram that decodes to      *)
(* message m with request id `id`.  nid is the id of the message built by  *)
(* sendV3Req when the report branch re-sends, and throws whether that send *)
(* throws.  this.proxy is never set by Session.  Of req.options the Req    *)
(* constructor reads the port, which sendV3Req overrides with req.port.    *)
(***************************************************************************)
onMsg(S, id, m, nid, throws) ==
    LET r  == S.reqs[id]
        S1 == unregisterRequest(S, id)
    IN
    IF r = 0 THEN S
    ELSE CASE m.kind = "secFail" -> processIncomingSecurity(S1, r)
           [] m.kind = "versionNoMatch" ->
                responseCb(S1, r, ResponseInvalidError("Version",
                                                       CodeOf("EVersionNoMatch")))
           [] m.kind = "communityNoMatch" ->
                responseCb(S1, r, ResponseInvalidError("Community",
                                                       CodeOf("ECommunityNoMatch")))
           [] m.kind = "report" ->
                LET S2 == [S1 EXCEPT !.msgSecurityParameters =
                              [set |-> TRUE, engineID |-> "agent",
                               boots |-> m.boots, time |-> m.time]]
                IN  IF ~S2.req[r].originalPdu \/ ~S2.req[r].allowReport
                    THEN IF StartsWith(m.oid, UsmStatsBase)
                         THEN userSecurityModelError(S2, r, m.oid)
                         ELSE responseCb(S2, r,
                                  ResponseInvalidError("Unexpected Report PDU",
                                      CodeOf("EUnexpectedReport")))
                    ELSE LET timeSyncNeeded == (m.boots = 0) /\ (m.time = 0)
                         IN  sendV3Req(S2, nid, S2.op[r], S2.req[r].pduClass,
                                       NoOptions, S2.req[r].port,
                                       timeSyncNeeded, r, throws)
           [] m.kind = "getResponse" -> onSimpleGetResponse(S1, r, m)
           [] OTHER ->
                responseCb(S1, r, ResponseInvalidError("Unknown PDU type",
                                                       CodeOf("EUnknownPduType")))

\* Whether onMsg creates a Req object (the report branch re-sends).
Resends(S, id, m) ==
    /\ S.reqs[id] # 0
    /\ m.kind = "report"
    /\ S.req[S.reqs[id]].originalPdu
    /\ S.req[S.reqs[id]].allowReport

\* The timer callback retransmitting once more than asked (retries-- >= 0).
onTimer_OneMore(S, r, throws) ==
    LET S1 == [S EXCEPT !.req[r].phase = "idle", !.req[r].retries = @ - 1]
    IN  IF S.req[r].retries >= 0
        THEN send(S1, r, throws)
        ELSE responseCb(unregisterRequest(S1, S1.req[r].id), r,
                        RequestTimedOutError("Request timed out"))

(***************************************************************************)
(* The timer callback armed by registerRequest (session.mjs 480-487).      *)
(* req.retries-- decrements in both branches.                              *)
(***************************************************************************)
onTimer(S, r, throws) ==
    LET S1 == [S EXCEPT !.req[r].phase = "idle", !.req[r].retries = @ - 1]
    IN  IF S.req[r].retries > 0
        THEN send(S1, r, throws)
        ELSE responseCb(unregisterRequest(S1, S1.req[r].id), r,
                        RequestTimedOutError("Request timed out"))

\* The completion callback of dgram.send taking no notice of noWait.
onSent_AlwaysRegisters(S, r, error) ==
    IF error
    THEN responseCb([S EXCEPT !.req[r].phase = "idle"], r, SendError)
    ELSE registerRequest([S EXCEPT !.sent[r] = @ + 1], r)

\* The completion callback of dgram.send (session.mjs 494-500); noWait is
\* set by trap alone.  Without an error the datagram has been transmitted.
onSent(S, r, error) ==
    LET noWait == S.req[r].kind = "trap" IN
    IF error
    THEN responseCb([S EXCEPT !.req[r].phase = "idle"], r, SendError)
    ELSE IF noWait
         THEN responseCb([S EXCEPT !.sent[r] = @ + 1, !.req[r].phase = "idle"],
                         r, Delivered)
         ELSE registerRequest([S EXCEPT !.sent[r] = @ + 1], r)

\* The state of the GetBulk feed callback before any reply: the session's
\* option defaults (session.mjs 65-66) and no request.
NoBulk ==
    /\ backwardsGetNexts = TRUE
    /\ reportOidMismatchErrors = FALSE
    /\ nonRepeaters = 0
    /\ bulkReq = <<>>
    /\ bulkReply = <<>>
    /\ bulkOut = [kind |-> "none"]

\* No callback under study.
NoCall ==
    /\ call = [fn |-> "none"]
    /\ result = [kind |-> "none"]

\* The session as constructed, for a version of vs and a retry count of rs.
Constructed(vs, rs) ==
    /\ version \in vs
    /\ retries \in rs
    /\ timeout = SessionTimeout(0)
    /\ backoff = SessionBackoff(Ratio(0, 1))
    /\ reqs = [i \in Ids |-> 0]
    /\ reqCount = 0
    /\ refd = FALSE
    /\ closed = FALSE
    /\ msgSecurityParameters = NoParams
    /\ req = [r \in ReqIdx |-> NoReq]
    /\ op = [r \in ReqIdx |-> 0]
    /\ parent = [r \in ReqIdx |-> 0]
    /\ nreq = 0
    /\ cbs = [r \in ReqIdx |-> NoCbs]
    /\ sent = [r \in ReqIdx |-> 0]

(***************************************************************************)
(* Initial state: the constructor (session.mjs 47-80).                     *)
(***************************************************************************)
Init ==
    /\ NoBulk
    /\ NoCall
    /\ version \in Versions
    /\ retries \in 0 .. MaxRetries
    /\ timeout = SessionTimeout(0)
    /\ backoff = SessionBackoff(Ratio(0, 1))
    /\ reqs = [i \in Ids |-> 0]
    /\ reqCount = 0
    /\ refd = FALSE
    /\ closed = FALSE
    /\ msgSecurityParameters = NoParams
    /\ req = [r \in ReqIdx |-> NoReq]
    /\ op = [r \in ReqIdx |-> 0]
    /\ parent = [r \in ReqIdx |-> 0]
    /\ nreq = 0
    /\ cbs = [r \in ReqIdx |-> NoCbs]
    /\ sent = [r \in ReqIdx |-> 0]

\* get / getNext / getBulk / set / inform on a v2c or v3 session: simpleGet.
\* A send on a closed socket throws; before that toBuffer may throw.
SimpleGet ==
    \E id \in Ids, throws \in BOOLEAN :
        /\ nreq < MaxReqs
        /\ closed => throws
        /\ Commit(simpleGet(Cur, id, "GetRequest", NoOptions, throws))
        /\ UNCHANGED <<version, retries, timeout, backoff, closed>>

\* The completion of a dgram.send in flight.  Once the socket is closed a
\* pending send can only fail.
SendDone ==
    \E r \in ReqIdx, error \in BOOLEAN :
        /\ req[r].phase = "sending"
        /\ closed => error
        /\ Commit(onSent(Cur, r, error))
        /\ UNCHANGED <<version, retries, timeout, backoff, closed>>

\* A retry timer expires.  The retransmission's message is already encoded,
\* so the send throws only on a closed socket.
TimerFire ==
    \E r \in ReqIdx :
        /\ req[r].phase = "timer"
        /\ Commit(onTimer(Cur, r, closed))
        /\ UNCHANGED <<version, retries, timeout, backoff, closed>>

\* A datagram arrives and decodes.
OnMsg ==
    \E id \in Ids, m \in Msgs, nid \in Ids, throws \in BOOLEAN :
        /\ ~closed
        /\ reqs[id] = 0 => m = Msg("unknownPdu", 0, 0, <<>>, "none")
        /\ IF Resends(Cur, id, m)
           THEN nreq < MaxReqs
           ELSE nid = 0 /\ ~throws
        /\ Commit(onMsg(Cur, id, m, nid, throws))
        /\ UNCHANGED <<version, retries, timeout, backoff, closed>>

\* The socket's 'close' event: Session.onClose (session.mjs 388-391).
Close ==
    /\ ~closed
    /\ closed' = TRUE
    /\ Commit(cancelRequests(Cur, Ids, SocketClosed))
    /\ UNCHANGED <<version, retries, timeout, backoff>>

Next == SimpleGet \/ SendDone \/ TimerFire \/ OnMsg \/ Close

Spec == Init /\ [][Next]_vars

\* inform, on a session of any version.
Inform ==
    \E id \in Ids, throws \in BOOLEAN :
        /\ nreq < MaxReqs
        /\ closed => throws
        /\ Commit(inform(Cur, id, throws))
        /\ UNCHANGED <<version, retries, timeout, backoff, closed>>

\* trap, on a session of any version.
Trap ==
    \E throws \in BOOLEAN :
        /\ nreq < MaxReqs
        /\ closed => throws
        /\ Commit(trap(Cur, throws))
        /\ UNCHANGED <<version, retries, timeout, backoff, closed>>

\* The session of any version with informs and traps among its operations.
NotifyInit ==
    /\ NoBulk
    /\ NoCall
    /\ Constructed({Version1, Version2c, Version3}, 0 .. MaxRetries)

NotifyNext ==
    SimpleGet \/ Inform \/ Trap \/ SendDone \/ TimerFire \/ OnMsg \/ Close

NotifySpec == NotifyInit /\ [][NotifyNext]_vars

(***************************************************************************)
(* An SNMPv3 session whose sends succeed and whose socket stays open, with *)
(* room for a discovery, its re-send and a later operation.  The agent     *)
(* answers with reports (no varbind) and with responses the feed callback  *)
(* accepts.                                                                *)
(***************************************************************************)
V3Msgs ==
    {Msg("report", b, t, <<>>, "none") : b \in 0 .. 1, t \in 0 .. 1}
    \cup {Msg("getResponse", 0, 0, <<>>, "ok")}

V3Init ==
    /\ NoBulk
    /\ NoCall
    /\ Constructed({Version3}, {0})

\* get / getNext / getBulk / set, or inform.
V3Operation ==
    \E id \in Ids, c \in {"GetRequest", "InformRequest"} :
        /\ nreq < MaxV3Reqs
        /\ Commit(IF c = "InformRequest"
                  THEN inform(Cur, id, FALSE)
                  ELSE simpleGet(Cur, id, c, NoOptions, FALSE))
        /\ UNCHANGED <<version, retries, timeout, backoff, closed>>

V3SendDone ==
    \E r \in ReqIdx :
        /\ req[r].phase = "sending"
        /\ Commit(onSent(Cur, r, FALSE))
        /\ UNCHANGED <<version, retries, timeout, backoff, closed>>

V3Msg ==
    \E id \in Ids, m \in V3Msgs, nid \in Ids :
        /\ reqs[id] # 0
        /\ IF Resends(Cur, id, m) THEN nreq < MaxV3Reqs ELSE nid = 0
        /\ Commit(onMsg(Cur, id, m, nid, FALSE))
        /\ UNCHANGED <<version, retries, timeout, backoff, closed>>

V3Next == V3Operation \/ V3SendDone \/ V3Msg \/ TimerFire

V3Spec == V3Init /\ [][V3Next]_vars

\* The session when no reply ever arrives and the socket stays open.
NoReplyNext == SimpleGet \/ SendDone \/ TimerFire

NoReplySpec == Init /\ [][NoReplyNext]_vars

(***************************************************************************)
(* Sessions created with a timeout and a backoff option: the timeout is    *)
(* absent or 100 ms, the backoff absent (or 0), 1/2, 1, 3/2 or 2.          *)
(***************************************************************************)
TimeoutOptions == {0, 100}

BackoffOptions ==
    {Ratio(0, 1), Ratio(1, 2), Ratio(1, 1), Ratio(3, 2), Ratio(2, 1)}

BackoffInit ==
    /\ NoBulk
    /\ NoCall
    /\ version = Version2c
    /\ retries \in 0 .. MaxBackoffRetries
    /\ \E t \in TimeoutOptions : timeout = SessionTimeout(t)
    /\ \E b \in BackoffOptions : backoff = SessionBackoff(b)
    /\ reqs = [i \in Ids |-> 0]
    /\ reqCount = 0
    /\ refd = FALSE
    /\ closed = FALSE
    /\ msgSecurityParameters = NoParams
    /\ req = [r \in ReqIdx |-> NoReq]
    /\ op = [r \in ReqIdx |-> 0]
    /\ parent = [r \in ReqIdx |-> 0]
    /\ nreq = 0
    /\ cbs = [r \in ReqIdx |-> NoCbs]
    /\ sent = [r \in ReqIdx |-> 0]

BackoffNext == SimpleGet \/ SendDone \/ TimerFire

BackoffSpec == BackoffInit /\ [][BackoffNext]_vars

TypeOK ==
    /\ reqCount \in 0 .. Cardinality(ReqIdx)
    /\ nreq \in 0 .. Cardinality(ReqIdx)
    /\ \A i \in Ids : reqs[i] \in 0 .. nreq

(***************************************************************************)
(*             Object parser (src/unnamed/part_000)                        *)
(* An OID string is the sequence of its character codes.                   *)
(***************************************************************************)
Dot == 46           \* '.'.charCodeAt(0)

\* The while loop of getNumber (part_000 31-36), from position idx with n read.
RECURSIVE ScanNumber(_, _, _)
ScanNumber(str, idx, n) ==
    IF idx >= Len(str) THEN [n |-> n, idx |-> idx]
    ELSE LET charCode == str[idx + 1] IN
         IF charCode = Dot THEN [n |-> n, idx |-> idx + 1]
         ELSE ScanNumber(str, idx + 1,
                         (IF n # 0 THEN n * 10 ELSE n) + (charCode - 48))

\* getNumber (part_000 28-37): the next component, or null at the end.
getNumber(str, idx) ==
    IF idx >= Len(str) THEN [null |-> TRUE, n |-> 0, idx |-> idx]
    ELSE LET s == ScanNumber(str, idx, 0) IN
         [null |-> FALSE, n |-> s.n, idx |-> s.idx]

\* The comparison loop of oidFollowsOid (part_000 40-54).
RECURSIVE FollowsFrom(_, _, _, _)
FollowsFrom(oid, i, next, j) ==
    LET oidNumber  == getNumber(oid, i)
        nextNumber == getNumber(next, j)
    IN  IF ~oidNumber.null
        THEN IF ~nextNumber.null
             THEN IF nextNumber.n > oidNumber.n THEN TRUE
                  ELSE IF nextNumber.n < oidNumber.n THEN FALSE
                  ELSE FollowsFrom(oid, oidNumber.idx, next, nextNumber.idx)
             ELSE TRUE
        ELSE TRUE

\* oidFollowsOid not counting an OID as following itself.
oidFollowsOid_NotSelf(oidString, nextString) ==
    oidString # nextString /\ FollowsFrom(oidString, 0, nextString, 0)

\* oidFollowsOid (part_000 23-55).
oidFollowsOid(oidString, nextString) == FollowsFrom(oidString, 0, nextString, 0)

(***************************************************************************)
(*          The GetBulk feed callback (session.mjs 164-259)                *)
(* A reply varbind is [ix, oid, err]: its position in the reply, its OID   *)
(* and whether isVarbindError holds of it.  An entry of the array handed   *)
(* to the caller is a varbind (list = FALSE, vb) or a list of varbinds     *)
(* (list = TRUE, vbs).  The outcome is the array given to the callback     *)
(* (ok), the ResponseInvalidError given to it (error), or a TypeError      *)
(* thrown before any callback (throws).                                    *)
(***************************************************************************)
One(v)  == [list |-> FALSE, vb |-> v, vbs |-> <<>>]
List(v) == [list |-> TRUE, vb |-> v, vbs |-> <<v>>]

BulkOk(varbinds) == [kind |-> "ok", varbinds |-> varbinds, code |-> "none"]
BulkError(code)  == [kind |-> "error", varbinds |-> <<>>, code |-> code]
BulkThrows       == [kind |-> "throws", varbinds |-> <<>>, code |-> "none"]

\* JavaScript's a % b for b # 0: the sign of the result is the dividend's.
JsRem(a, b) ==
    LET m == IF b < 0 THEN -b ELSE b IN
    IF a >= 0 THEN a % m ELSE -((-a) % m)

\* reqIndex (session.mjs 216) with the round-robin off by one slot.
reqIndexOf_OffByOne(i, n, repeaters) == JsRem(i - n + 1, repeaters) + n

\* reqIndex (session.mjs 216), for repeaters # 0.
reqIndexOf(i, n, repeaters) == JsRem(i - n, repeaters) + n

\* The second loop (session.mjs 215-257).  pdu.varbinds[prevIndex].oid and
\* varbinds[reqIndex].push throw a TypeError when the element read is
\* undefined (an index out of range, or NaN for repeaters = 0) or, for push,
\* is a varbind and not a list.
RECURSIVE bulkRest(_, _, _, _, _, _, _)
bulkRest(i, varbinds, reqVarbinds, pduVarbinds, n, strict, backwards) ==
    IF i >= Len(pduVarbinds) THEN BulkOk(varbinds)
    ELSE LET repeaters == Len(reqVarbinds) - n
             prevIndex == i - repeaters
             v         == pduVarbinds[i + 1]
         IN
         IF prevIndex < 0 \/ prevIndex >= Len(pduVarbinds) THEN BulkThrows
         ELSE LET prevOid == pduVarbinds[prevIndex + 1].oid IN
              IF v.err /\ strict /\ prevOid # v.oid
              THEN BulkError("EReqResOidNoMatch")
              ELSE IF ~v.err /\ ~backwards /\ ~oidFollowsOid(prevOid, v.oid)
              THEN BulkError("EOutOfOrder")
              ELSE IF repeaters = 0 THEN BulkThrows
              ELSE LET reqIndex == reqIndexOf(i, n, repeaters) IN
                   IF reqIndex < 0 \/ reqIndex >= Len(varbinds) THEN BulkThrows
                   ELSE IF ~varbinds[reqIndex + 1].list THEN BulkThrows
                   ELSE bulkRest(i + 1,
                            [varbinds EXCEPT ![reqIndex + 1].vbs = Append(@, v)],
                            reqVarbinds, pduVarbinds, n, strict, backwards)

\* The first loop without its test of the order, then the second.
RECURSIVE bulkFirst_Unordered(_, _, _, _, _, _, _)
bulkFirst_Unordered(i, varbinds, reqVarbinds, pduVarbinds, n, strict, b) ==
    IF i < Len(reqVarbinds) /\ i < Len(pduVarbinds)
    THEN LET v == pduVarbinds[i + 1]
             q == reqVarbinds[i + 1]
         IN  IF v.err /\ strict /\ q # v.oid
             THEN BulkError("EReqResOidNoMatch")
             ELSE bulkFirst_Unordered(i + 1,
                      Append(varbinds, IF i < n THEN One(v) ELSE List(v)),
                      reqVarbinds, pduVarbinds, n, strict, b)
    ELSE bulkRest(i, varbinds, reqVarbinds, pduVarbinds, n, strict, b)

\* The first loop (session.mjs 169-212), then the second.
RECURSIVE bulkFirst(_, _, _, _, _, _, _)
bulkFirst(i, varbinds, reqVarbinds, pduVarbinds, n, strict, backwards) ==
    IF i < Len(reqVarbinds) /\ i < Len(pduVarbinds)
    THEN LET v == pduVarbinds[i + 1]
             q == reqVarbinds[i + 1]
         IN  IF v.err /\ strict /\ q # v.oid
             THEN BulkError("EReqResOidNoMatch")
             ELSE IF ~v.err /\ ~backwards /\ ~oidFollowsOid(q, v.oid)
             THEN BulkError("EOutOfOrder")
             ELSE bulkFirst(i + 1,
                      Append(varbinds, IF i < n THEN One(v) ELSE List(v)),
                      reqVarbinds, pduVarbinds, n, strict, backwards)
    ELSE bulkRest(i, varbinds, reqVarbinds, pduVarbinds, n, strict, backwards)

\* feedCb of Session.getBulk (session.mjs 164-259).
getBulkFeedCb(reqVarbinds, pduVarbinds, n, strict, backwards) ==
    bulkFirst(0, <<>>, reqVarbinds, pduVarbinds, n, strict, backwards)

\* The OIDs of the bounded requests and replies: "1.2" and "1.10".
BulkOids == {<<49, 46, 50>>, <<49, 46, 49, 48>>}

SeqsUpTo(S, k) == UNION {[1 .. m -> S] : m \in 0 .. k}

BulkReplies ==
    {[k \in 1 .. Len(q) |-> [ix |-> k - 1, oid |-> q[k].oid, err |-> q[k].err]] :
        q \in SeqsUpTo([oid : BulkOids, err : BOOLEAN], MaxReplyLen)}

\* A session with a GetBulk request for at least one OID outstanding, for any
\* options.
BulkInit ==
    /\ NoCall
    /\ version = Version2c
    /\ retries = 0
    /\ timeout = SessionTimeout(0)
    /\ backoff = SessionBackoff(Ratio(0, 1))
    /\ reqs = [i \in Ids |-> 0]
    /\ reqCount = 0
    /\ refd = FALSE
    /\ closed = FALSE
    /\ msgSecurityParameters = NoParams
    /\ req = [r \in ReqIdx |-> NoReq]
    /\ op = [r \in ReqIdx |-> 0]
    /\ parent = [r \in ReqIdx |-> 0]
    /\ nreq = 0
    /\ cbs = [r \in ReqIdx |-> NoCbs]
    /\ sent = [r \in ReqIdx |-> 0]
    /\ backwardsGetNexts \in BOOLEAN
    /\ reportOidMismatchErrors \in BOOLEAN
    /\ bulkReq \in SeqsUpTo(BulkOids, MaxReqLen) \ {<<>>}
    /\ nonRepeaters \in 0 .. MaxReqLen + 1
    /\ bulkReply = <<>>
    /\ bulkOut = [kind |-> "none"]

\* The reply reaches the request's feed callback.
GetBulkReply ==
    \E reply \in BulkReplies :
        /\ bulkOut.kind = "none"
        /\ bulkReply' = reply
        /\ bulkOut' = getBulkFeedCb(bulkReq, reply, nonRepeaters,
                                    reportOidMismatchErrors, backwardsGetNexts)
        /\ UNCHANGED <<svars, fvars, backwardsGetNexts,
                       reportOidMismatchErrors, nonRepeaters, bulkReq>>

BulkNext == GetBulkReply

BulkSpec == BulkInit /\ [][BulkNext]_vars

\* str.split('.'): the components between the dots.
RECURSIVE split(_)
split(str) ==
    IF \E i \in 1 .. Len(str) : str[i] = Dot
    THEN LET i == CHOOSE k \in 1 .. Len(str) :
                      str[k] = Dot /\ \A j \in 1 .. k - 1 : str[j] # Dot
         IN  <<SubSeq(str, 1, i - 1)>> \o split(SubSeq(str, i + 1, Len(str)))
    ELSE <<str>>

\* oidInSubtree as a test on the text: nextString begins with oidString.
oidInSubtree_ByText(oidString, nextString) == StartsWith(nextString, oidString)

\* oidInSubtree (part_000 57-65).
oidInSubtree(oidString, nextString) ==
    LET oid  == split(oidString)
        next == split(nextString)
    IN  IF Len(oid) > Len(next) THEN FALSE
        ELSE \A i \in 1 .. Len(oid) : next[i] = oid[i]

(***************************************************************************)
(* The feed callbacks of get, set, getNext and inform.  A request varbind  *)
(* is its OID, a reply varbind its OID and whether its type is one of the  *)
(* error sentinels (isVarbindError, part_000 11-17).                       *)
(***************************************************************************)
\* The loop of get's and set's feedCb (session.mjs 108-130, 520-542).
RECURSIVE getLoop(_, _, _, _, _)
getLoop(i, varbinds, reqVarbinds, pduVarbinds, strict) ==
    IF i >= Len(reqVarbinds) THEN BulkOk(varbinds)
    ELSE IF strict /\ reqVarbinds[i + 1] # pduVarbinds[i + 1].oid
         THEN BulkError("EReqResOidNoMatch")
         ELSE getLoop(i + 1, Append(varbinds, pduVarbinds[i + 1]),
                      reqVarbinds, pduVarbinds, strict)

\* feedCb of Session.get (session.mjs 97-132).
getFeedCb(reqVarbinds, pduVarbinds, strict) ==
    IF Len(reqVarbinds) # Len(pduVarbinds) THEN BulkError("EReqResOidNoMatch")
    ELSE getLoop(0, <<>>, reqVarbinds, pduVarbinds, strict)

\* feedCb of Session.set (session.mjs 509-544): the same statements.
setFeedCb(reqVarbinds, pduVarbinds, strict) ==
    IF Len(reqVarbinds) # Len(pduVarbinds) THEN BulkError("EReqResOidNoMatch")
    ELSE getLoop(0, <<>>, reqVarbinds, pduVarbinds, strict)

\* feedCb of Session.inform (session.mjs 343-370): the OIDs always compared.
informFeedCb(reqVarbinds, pduVarbinds) ==
    IF Len(reqVarbinds) # Len(pduVarbinds) THEN BulkError("EReqResOidNoMatch")
    ELSE getLoop(0, <<>>, reqVarbinds, pduVarbinds, TRUE)

\* The loop of getNext's feedCb with the sentinels left out of the result.
getNextLoop_DropSentinels(i, varbinds, reqVarbinds, pduVarbinds, backwards) ==
    LET ordered == \A k \in 1 .. Len(reqVarbinds) :
                       \/ pduVarbinds[k].err \/ backwards
                       \/ oidFollowsOid(reqVarbinds[k], pduVarbinds[k].oid)
    IN  IF ordered THEN BulkOk(SelectSeq(pduVarbinds, LAMBDA v : ~v.err))
        ELSE BulkError("OutOfOrder")

\* The loop of getNext's feedCb (session.mjs 282-303).
RECURSIVE getNextLoop(_, _, _, _, _)
getNextLoop(i, varbinds, reqVarbinds, pduVarbinds, backwards) ==
    IF i >= Len(reqVarbinds) THEN BulkOk(varbinds)
    ELSE LET v == pduVarbinds[i + 1] IN
         IF v.err
         THEN getNextLoop(i + 1, Append(varbinds, v),
                          reqVarbinds, pduVarbinds, backwards)
         ELSE IF ~backwards /\ ~oidFollowsOid(reqVarbinds[i + 1], v.oid)
         THEN BulkError("OutOfOrder")
         ELSE getNextLoop(i + 1, Append(varbinds, v),
                          reqVarbinds, pduVarbinds, backwards)

\* feedCb of Session.getNext (session.mjs 271-305).
getNextFeedCb(reqVarbinds, pduVarbinds, backwards) ==
    IF Len(reqVarbinds) # Len(pduVarbinds) THEN BulkError("EReqResOidNoMatch")
    ELSE getNextLoop(0, <<>>, reqVarbinds, pduVarbinds, backwards)

\* The feed callback of the operation c.fn applied to c.reply.
feedCb(c) ==
    CASE c.fn = "get"     ->
             getFeedCb(c.req, c.reply, c.reportOidMismatchErrors)
      [] c.fn = "set"     ->
             setFeedCb(c.req, c.reply, c.reportOidMismatchErrors)
      [] c.fn = "getNext" -> getNextFeedCb(c.req, c.reply, c.backwardsGetNexts)
      [] c.fn = "inform"  -> informFeedCb(c.req, c.reply)

MaxFeedLen == 2

FeedReplies == SeqsUpTo([oid : BulkOids, err : BOOLEAN], MaxFeedLen + 1)

\* A get, set, getNext or inform request awaiting its reply, for any
\* options of the session.
FeedInit ==
    /\ Constructed({Version2c}, {0})
    /\ NoBulk
    /\ \E f \in {"get", "set", "getNext", "inform"},
          q \in SeqsUpTo(BulkOids, MaxFeedLen),
          strict \in BOOLEAN, backwards \in BOOLEAN :
          call = [fn |-> f, req |-> q, reply |-> <<>>,
                  reportOidMismatchErrors |-> strict,
                  backwardsGetNexts |-> backwards]
    /\ result = [kind |-> "none"]

\* The reply reaches the request's feed callback.
FeedReply ==
    \E reply \in FeedReplies :
        /\ result.kind = "none"
        /\ call' = [call EXCEPT !.reply = reply]
        /\ result' = feedCb(call')
        /\ UNCHANGED <<svars, bvars>>

FeedNext == FeedReply

FeedSpec == FeedInit /\ [][FeedNext]_vars

(***************************************************************************)
(* subtree, table and tableColumns.  A walked varbind is its OID, whether  *)
(* its type is an error sentinel, and its value.  The request object of    *)
(* the operation (rowOid, columns, table, error) is the field req of       *)
(* result; call holds the walk in progress.                                *)
(***************************************************************************)
MaxBatchLen == 2
MaxBatches == 2

\* varbindError (part_000 19-21): the sentinel's name and the OID; the OID
\* is what tells two errors apart here.
varbindError(varbind) == varbind.oid

\* The loop of subtreeCb (session.mjs 773-778): i runs from the end of the
\* batch; pop removes the last element of what is left.
RECURSIVE subtreeTrim(_, _, _, _)
subtreeTrim(i, varbinds, baseOid, done) ==
    IF i <= 0 THEN [varbinds |-> varbinds, done |-> done]
    ELSE IF ~oidInSubtree(baseOid, varbinds[i].oid)
         THEN subtreeTrim(i - 1, SubSeq(varbinds, 1, Len(varbinds) - 1),
                          baseOid, TRUE)
         ELSE subtreeTrim(i - 1, varbinds, baseOid, done)

\* oid.match(/^(\d+)\.(.+)$/): the leading digits, a dot, and a rest that
\* is not empty.
IsDigit(c) == c \in 48 .. 57

LeadingDigits(s) ==
    CHOOSE k \in 0 .. Len(s) :
        /\ \A j \in 1 .. k : IsDigit(s[j])
        /\ k = Len(s) \/ ~IsDigit(s[k + 1])

match(oid) ==
    LET k == LeadingDigits(oid) IN
    IF k >= 1 /\ Len(oid) >= k + 2 /\ oid[k + 1] = Dot
    THEN [ok |-> TRUE, col |-> SubSeq(oid, 1, k),
          row |-> SubSeq(oid, k + 2, Len(oid))]
    ELSE [ok |-> FALSE, col |-> <<>>, row |-> <<>>]

\* match[1] > 0 for a string of digits.
Positive(digits) == \E j \in 1 .. Len(digits) : digits[j] # 48

\* A value as the agent sent it, and the coercions of tableFeedCb's switch
\* (session.mjs 835-850).
Value(v) == [v |-> v, form |-> "raw"]

thisValue(colInfo, value) ==
    CASE colInfo.type = "string" -> [value EXCEPT !.form = "toString"]
      [] colInfo.type = "hex"    -> [value EXCEPT !.form = "hex"]
      [] colInfo.type = "uint64" -> [value EXCEPT !.form = "readInt64BEasFloat"]
      [] colInfo.type = "enum"   ->
             IF value.v \in DOMAIN colInfo.enum
             THEN Value(colInfo.enum[value.v]) ELSE value
      [] OTHER -> value

\* No configuration for a column: req.columns[match[1]] is undefined.
NoColInfo == [name |-> <<>>, type |-> "", enum |-> <<>>]

\* req.table[row][key] = value
Store(table, row, key, value) ==
    [p \in DOMAIN table \cup {<<row, key>>} |->
        IF p = <<row, key>> THEN value ELSE table[p]]

\* tableFeedCb recording the error of a sentinel and going on with the
\* varbinds after it.
RECURSIVE tableFeedCb_KeepsGoing(_, _, _)
tableFeedCb_KeepsGoing(i, R, varbinds) ==
    IF i > Len(varbinds)
    THEN [req |-> R, stop |-> R.error.name # "none"]
    ELSE LET vb  == varbinds[i]
             oid == RemoveFirst(vb.oid, R.rowOid)
             m   == match(oid)
         IN  IF vb.err
             THEN tableFeedCb_KeepsGoing(i + 1,
                      [R EXCEPT !.error =
                          RequestFailedError(varbindError(vb))],
                      varbinds)
             ELSE IF oid # <<>> /\ oid # vb.oid /\ m.ok /\ Positive(m.col)
             THEN tableFeedCb_KeepsGoing(i + 1,
                      [R EXCEPT !.table = Store(@, m.row, m.col, vb.value)],
                      varbinds)
             ELSE tableFeedCb_KeepsGoing(i + 1, R, varbinds)

\* tableFeedCb (session.mjs 821-856).
RECURSIVE tableFeedCb(_, _, _)
tableFeedCb(i, R, varbinds) ==
    IF i > Len(varbinds) THEN [req |-> R, stop |-> FALSE]
    ELSE LET vb  == varbinds[i]
             oid == RemoveFirst(vb.oid, R.rowOid)
             m   == match(oid)
         IN  IF vb.err
             THEN [req  |-> [R EXCEPT !.error =
                                RequestFailedError(varbindError(vb))],
                   stop |-> TRUE]
             ELSE IF oid # <<>> /\ oid # vb.oid /\ m.ok /\ Positive(m.col)
             THEN LET colInfo == IF m.col \in DOMAIN R.columns
                                 THEN R.columns[m.col] ELSE NoColInfo
                      colName == IF colInfo.name # <<>> THEN colInfo.name
                                 ELSE m.col
                  IN  tableFeedCb(i + 1,
                          [R EXCEPT !.table =
                              Store(@, m.row, colName,
                                    thisValue(colInfo, vb.value))],
                          varbinds)
             ELSE tableFeedCb(i + 1, R, varbinds)

\* tableColumnsFeedCb (session.mjs 798-813).
RECURSIVE tableColumnsFeedCb(_, _, _)
tableColumnsFeedCb(i, R, varbinds) ==
    IF i > Len(varbinds) THEN [req |-> R, stop |-> FALSE]
    ELSE LET vb  == varbinds[i]
             oid == RemoveFirst(vb.oid, R.rowOid)
             m   == match(oid)
         IN  IF vb.err
             THEN [req  |-> [R EXCEPT !.error =
                                RequestFailedError(varbindError(vb))],
                   stop |-> TRUE]
             ELSE IF oid # <<>> /\ oid # vb.oid /\ m.ok /\ Positive(m.col)
             THEN tableColumnsFeedCb(i + 1,
                      [R EXCEPT !.table = Store(@, m.row, m.col, vb.value)],
                      varbinds)
             ELSE tableColumnsFeedCb(i + 1, R, varbinds)

\* req.feedCb(varbinds) as subtreeCb calls it: the caller's callback for
\* subtree (it returns what it likes), the table builders otherwise.
reqFeedCb(fn, R, varbinds, callerStops) ==
    CASE fn = "table"        -> tableFeedCb(1, R, varbinds)
      [] fn = "tableColumns" -> tableColumnsFeedCb(1, R, varbinds)
      [] OTHER               -> [req |-> R, stop |-> callerStops]

\* subtreeCb (session.mjs 771-783): what was passed to req.feedCb, the
\* request object afterwards and whether true was returned.
subtreeCb(fn, baseOid, R, batch, callerStops) ==
    LET t == subtreeTrim(Len(batch), batch, baseOid, FALSE) IN
    IF Len(t.varbinds) > 0
    THEN LET f == reqFeedCb(fn, R, t.varbinds, callerStops) IN
         [req |-> f.req, fed |-> t.varbinds, called |-> TRUE,
          stop |-> t.done \/ f.stop]
    ELSE [req |-> R, fed |-> <<>>, called |-> FALSE, stop |-> t.done]

NoError == [name |-> "none", message |-> <<>>, code |-> undefined]
WalkFailed == [name |-> "RequestTimedOutError", message |-> <<>>,
               code |-> undefined]

NoOut == [kind |-> "none", error |-> NoError, table |-> <<>>]
ErrorOut(error) == [kind |-> "error", error |-> error, table |-> <<>>]
TableOut(table) == [kind |-> "table", error |-> NoError, table |-> table]
DoneOut == [kind |-> "done", error |-> NoError, table |-> <<>>]

\* tableResponseCb (session.mjs 815-819).
tableResponseCb(R, error) ==
    IF error.name # "none" THEN ErrorOut(error)
    ELSE IF R.error.name # "none" THEN ErrorOut(R.error)
    ELSE TableOut(R.table)

\* The OIDs and values an agent answers with, for the tables rooted at
\* '1': '1.1.2.1', '1.1.2.2', '1.1.3.1', '1.1.0.1', '1.21.1.5' and '2.1'.
BaseOID == <<49>>

WalkOids ==
    { <<49, 46, 49, 46, 50, 46, 49>>, <<49, 46, 49, 46, 50, 46, 50>>,
      <<49, 46, 49, 46, 51, 46, 49>>, <<49, 46, 49, 46, 48, 46, 49>>,
      <<49, 46, 50, 49, 46, 49, 46, 53>>, <<50, 46, 49>> }

Values == {"eth0", "eth1"}

WalkVarbinds ==
    [oid : WalkOids, err : {FALSE}, value : {Value(v) : v \in Values}]
        \cup [oid : WalkOids, err : {TRUE}, value : {Value("null")}]

Batches == SeqsUpTo(WalkVarbinds, MaxBatchLen)

\* tableOptions.Columns: none, a name for column 2 ('if'), a name and a
\* type, or an enum without a name.
ColumnOptions ==
    { <<>>,
      <<50>> :> [name |-> <<105, 102>>, type |-> "", enum |-> <<>>],
      <<50>> :> [name |-> <<105, 102>>, type |-> "string", enum |-> <<>>],
      <<50>> :> [name |-> <<>>, type |-> "enum", enum |-> ("eth0" :> "up")] }

\* The columns argument of tableColumns.
ColumnLists == { <<>>, << <<50>> >>, << <<51>>, <<50>> >> }

WalkCall(fn, baseOid, phase) ==
    [fn |-> fn, baseOid |-> baseOid, phase |-> phase, batch |-> <<>>,
     n |-> 0]

WalkReq(rowOid, columns) ==
    [rowOid |-> rowOid, columns |-> columns, table |-> <<>>,
     error |-> NoError]

NoFeed(R) ==
    [req |-> R, fed |-> <<>>, called |-> FALSE, stop |-> FALSE,
     out |-> NoOut]

\* Session.subtree (session.mjs 570-586): the walk is started.
subtreeInit ==
    /\ call = WalkCall("subtree", BaseOID, "walking")
    /\ result = NoFeed(WalkReq(<<>>, <<>>))

\* Session.table (session.mjs 608-630).
tableInit ==
    \E columns \in ColumnOptions :
        /\ call = WalkCall("table", BaseOID, "walking")
        /\ result = NoFeed(WalkReq(BaseOID \o <<46, 49, 46>>, columns))

\* Session.tableColumns (session.mjs 588-606): the last column is walked
\* first; with no column nothing is started.
tableColumnsInit ==
    \E columns \in ColumnLists :
        LET rowOid == BaseOID \o <<46, 49, 46>> IN
        IF Len(columns) > 0
        THEN /\ call = WalkCall("tableColumns",
                                rowOid \o columns[Len(columns)], "walking")
             /\ result = NoFeed(WalkReq(rowOid,
                                   SubSeq(columns, 1, Len(columns) - 1)))
        ELSE /\ call = WalkCall("tableColumns", BaseOID, "idle")
             /\ result = NoFeed(WalkReq(rowOid, columns))

WalkInit ==
    /\ Constructed({Version2c}, {0})
    /\ NoBulk
    /\ subtreeInit \/ tableInit \/ tableColumnsInit

\* The walk driver hands a batch to subtreeCb; a true return ends the
\* walk's requests.
WalkFeed ==
    \E batch \in Batches,
       callerStops \in (IF call.fn = "subtree" THEN BOOLEAN ELSE {FALSE}) :
        /\ call.phase = "walking"
        /\ call.n < MaxBatches
        /\ LET c == subtreeCb(call.fn, call.baseOid, result.req, batch,
                              callerStops)
           IN  /\ result' = [result EXCEPT !.req = c.req, !.fed = c.fed,
                                           !.called = c.called,
                                           !.stop = c.stop]
               /\ call' = [call EXCEPT
                              !.batch = batch, !.n = @ + 1,
                              !.phase = IF c.stop THEN "stopped" ELSE @]
        /\ UNCHANGED <<svars, bvars>>

\* The walk driver calls doneCb, with an error or without: the caller's
\* callback for subtree, tableResponseCb for table, and
\* tableColumnsResponseCb (session.mjs 785-796), which walks the next
\* column when there is one.
WalkDone ==
    \E error \in {NoError, WalkFailed} :
        /\ call.phase \in {"walking", "stopped"}
        /\ LET R == result.req IN
           IF /\ call.fn = "tableColumns"
              /\ error.name = "none"
              /\ R.error.name = "none"
              /\ Len(R.columns) > 0
           THEN /\ call' = [call EXCEPT
                               !.baseOid =
                                   R.rowOid \o R.columns[Len(R.columns)],
                               !.phase = "walking", !.batch = <<>>]
                /\ result' = NoFeed([R EXCEPT !.columns =
                                        SubSeq(@, 1, Len(@) - 1)])
           ELSE /\ call' = [call EXCEPT !.phase = "done"]
                /\ result' = [result EXCEPT !.out =
                      IF call.fn = "subtree"
                      THEN IF error.name # "none" THEN ErrorOut(error)
                           ELSE DoneOut
                      ELSE tableResponseCb(R, error)]
        /\ UNCHANGED <<svars, bvars>>

WalkNext == WalkFeed \/ WalkDone

WalkSpec == WalkInit /\ [][WalkNext]_vars

(***************************************************************************)
(* The OID predicates applied to pairs of OIDs.  An OID is given by the    *)
(* list of its components and handed over as its dotted-decimal string.    *)
(***************************************************************************)
MaxOidLen == 2

\* The decimal digits of n.
RECURSIVE Digits(_)
Digits(n) ==
    IF n < 10 THEN <<48 + n>> ELSE Digits(n \div 10) \o <<48 + (n % 10)>>

\* The dotted-decimal string of a list of components.
RECURSIVE OidString(_)
OidString(components) ==
    IF Len(components) = 1 THEN Digits(components[1])
    ELSE OidString(SubSeq(components, 1, Len(components) - 1))
             \o <<Dot>> \o Digits(components[Len(components)])

OidComponents == {0, 1, 2, 10}

\* Short OIDs of every shape, and '1.3.6.1.2', '1.3.6.1.3',
\* '1.3.6.1.2.1.1', '1.3.6.1.2.1.1.3.0' and '1.3.6.1.2.1.2.0'.
OidLists ==
    (SeqsUpTo(OidComponents, MaxOidLen) \ {<<>>})
        \cup { <<1, 3, 6, 1, 2>>, <<1, 3, 6, 1, 3>>, <<1, 3, 6, 1, 2, 1, 1>>,
               <<1, 3, 6, 1, 2, 1, 1, 3, 0>>, <<1, 3, 6, 1, 2, 1, 2, 0>> }

\* A call of oidFollowsOid or oidInSubtree about to be made.
OidInit ==
    /\ Constructed({Version2c}, {0})
    /\ NoBulk
    /\ \E f \in {"oidFollowsOid", "oidInSubtree"}, a \in OidLists,
          b \in OidLists :
          call = [fn |-> f, a |-> a, b |-> b, oidString |-> OidString(a),
                  nextString |-> OidString(b)]
    /\ result = [kind |-> "none"]

\* The predicate returns.
OidApply ==
    /\ result.kind = "none"
    /\ result' = [kind  |-> "value",
                  value |-> IF call.fn = "oidFollowsOid"
                            THEN oidFollowsOid(call.oidString, call.nextString)
                            ELSE oidInSubtree(call.oidString, call.nextString)]
    /\ UNCHANGED <<svars, bvars, call>>

OidNext == OidApply

OidSpec == OidInit /\ [][OidNext]_vars

(***************************************************************************)
(* Decoding of 64-bit values.  A buffer is the sequence of its bytes.  A   *)
(* JavaScript number beyond 32 bits is the pair [w1, w0] that stands for   *)
(* w1 * 2^32 + w0, with w0 a signed 32-bit word.                           *)
(***************************************************************************)
MaxBufLen == 9

\* buf.readInt32BE(offset): the four bytes as a signed big-endian word.
readInt32BE(buffer, offset) ==
    LET b0 == buffer[offset + 1] IN
    (IF b0 >= 128 THEN b0 - 256 ELSE b0) * 16777216
        + buffer[offset + 2] * 65536 + buffer[offset + 3] * 256
        + buffer[offset + 4]

\* The while loop of readInt64BEasFloat (part_000 4): zero bytes in front
\* until there are 8.
RECURSIVE PadTo8(_)
PadTo8(buffer) ==
    IF Len(buffer) < 8 THEN PadTo8(<<0>> \o buffer) ELSE buffer

\* readInt64BEasFloat (part_000 3-9): n = high * 4294967296.0 + low, and
\* 4294967296 more when low < 0.
readInt64BEasFloat(buf, offset) ==
    LET buffer == PadTo8(buf)
        low    == readInt32BE(buffer, offset + 4)
        high   == readInt32BE(buffer, offset)
    IN  [w1 |-> high + (IF low < 0 THEN 1 ELSE 0), w0 |-> low]

\* readVarbindValue for a Counter64 (part_000 123-125).
readCounter64(buf) ==
    readInt64BEasFloat(buf, IF Len(buf) - 8 > 0 THEN Len(buf) - 8 ELSE 0)

\* tableFeedCb's coercion of a 'uint64' column (session.mjs 844-846).
readUint64Column(value) == readInt64BEasFloat(value, 0)

Bytes == {0, 1, 255}

\* A Counter64 varbind or a value of a 'uint64' column about to be decoded.
DecodeInit ==
    /\ Constructed({Version2c}, {0})
    /\ NoBulk
    /\ \E f \in {"Counter64", "uint64"}, buf \in SeqsUpTo(Bytes, MaxBufLen) :
          call = [fn |-> f, buf |-> buf]
    /\ result = [kind |-> "none"]

\* The value is decoded.
Decode ==
    /\ result.kind = "none"
    /\ result' = [kind |-> "value",
                  n    |-> IF call.fn = "Counter64"
                           THEN readCounter64(call.buf)
                           ELSE readUint64Column(call.buf)]
    /\ UNCHANGED <<svars, bvars, call>>

DecodeNext == Decode

DecodeSpec == DecodeInit /\ [][DecodeNext]_vars

(***************************************************************************)
(*                        Claims on the session                            *)
(***************************************************************************)
Created == 1 .. nreq

\* No timer is armed and no send is in flight: nothing more will happen to
\* the requests issued so far unless a datagram arrives.
Quiescent == \A r \in ReqIdx : req[r].phase \notin {"timer", "sending"}

\* C1: for any single request the response callback runs at most once, and
\* the request is out of the registry whenever its callback runs.
C1_AtMostOnceAfterRemoval ==
    \A r \in ReqIdx : cbs[r].n <= 1 /\ ~cbs[r].reg

\* C2: the socket is ref'd if and only if the outstanding-request count is
\* greater than 0, in every reachable state.
C2_RefIffOutstanding == refd <=> (reqCount > 0)

C2_Witness ==
    /\ refd
    /\ reqCount > 0
    /\ \E r \in Created : req[r].phase = "gone" /\ sent[r] >= 1 /\ cbs[r].timedOut

\* C3: a request that was transmitted and never gets a reply ends with
\* exactly one RequestTimedOutError and is then absent from the registry.
\* Checked where no reply arrives and the socket stays open (NoReplySpec):
\* once every timer has fired and every send has completed, each transmitted
\* request has had exactly one callback, the timeout, and is unregistered.
C3_TimesOutOnce ==
    Quiescent =>
        \A r \in Created :
            sent[r] >= 1 =>
                cbs[r].n = 1 /\ cbs[r].timedOut /\ ~Registered(Cur, r)

\* C4: a timer expiry with retries remaining decrements the retry counter by
\* one and hands the same Req object (same id, same message) to send, adding
\* no registry entry and no Req object; and a request whose timeout has been
\* delivered was transmitted exactly retries + 1 times.
C4_Retransmission ==
    /\ \A r \in Created :
          (req[r].phase = "timer" /\ req[r].retries > 0) =>
              LET T == onTimer(Cur, r, closed) IN
              /\ T.req[r].retries = req[r].retries - 1
              /\ T.req[r].id = req[r].id
              /\ T.reqs = reqs
              /\ T.reqCount = reqCount
              /\ T.nreq = nreq
              /\ closed \/ (T.req[r].phase = "sending" /\ T.dlv = <<>>)
    /\ \A r \in Created : cbs[r].timedOut => sent[r] = retries + 1

C4_Witness ==
    /\ retries >= 1
    /\ \E r \in Created : cbs[r].timedOut /\ cbs[r].n = 1 /\ sent[r] = retries + 1

\* C5: when the socket closes, every request in the registry has its callback
\* invoked exactly once with the 'socket closed' error, and afterwards the
\* registry is empty, the count is 0, the socket is unref'd and no request
\* timer is armed.
C5_CloseCancelsAll ==
    [][(~closed /\ closed') =>
          LET T == cancelRequests(Cur, Ids, SocketClosed) IN
          /\ \A r \in Created :
                Registered(Cur, r) =>
                    Cardinality({i \in DOMAIN T.dlv :
                        T.dlv[i].r = r /\ T.dlv[i].out = SocketClosed}) = 1
          /\ \A i \in Ids : reqs'[i] = 0
          /\ reqCount' = 0
          /\ ~refd'
          /\ \A r \in ReqIdx : req'[r].phase # "timer"]_vars

\* C6: unregisterRequest on an id with no entry returns null, calls no
\* callback and changes nothing; unregistering twice is unregistering once.
C6_UnregisterIdempotent ==
    \A id \in Ids :
        /\ reqs[id] = 0 => unregisterRequest(Cur, id) = Cur
        /\ LET T == unregisterRequest(Cur, id) IN
           /\ T.reqs[id] = 0
           /\ T.dlv = <<>>
           /\ unregisterRequest(T, id) = T

C6_Witness ==
    \E r \in Created, id \in Ids :
        /\ req[r].phase = "gone" /\ sent[r] >= 1 /\ cbs[r].n = 1
        /\ reqs[id] = 0
        /\ reqCount > 0

\* C7: a terminal event of one request (reply, validation failure, timeout,
\* send error) touches only that request: the registry entry, timer, retry
\* count and callback of every other request are left unchanged.  Every step
\* but the socket's close is an event of one request, so it changes at most
\* one of the Req objects that exist.
Touched(r) ==
    \/ req'[r] # req[r]
    \/ cbs'[r] # cbs[r]
    \/ (reqs'[req[r].id] = r) # (reqs[req[r].id] = r)

C7_OthersUntouched ==
    [][(closed' = closed) =>
          Cardinality({r \in Created : Touched(r)}) <= 1]_vars

\* C10: a Report with engine boots 0 and engine time 0 for a request that
\* permits reports re-sends the original PDU with reports still permitted,
\* and the caller gets no outcome but the re-sent request's: the request the
\* report answered never runs the callback.
C10_OnlyResentOutcome ==
    \A c \in Created :
        (parent[c] # 0 /\ req[c].phase \notin {"none", "gone"} /\ req[c].allowReport)
            => cbs[parent[c]].n = 0

(***************************************************************************)
(*                  Claims on the GetBulk feed callback                    *)
(***************************************************************************)
Repeaters == Len(bulkReq) - nonRepeaters

Min(a, b) == IF a < b THEN a ELSE b

\* The reply varbinds of repeater slot j, in reply order.
SlotOf(j) ==
    SelectSeq(bulkReply,
              LAMBDA v : /\ v.ix >= nonRepeaters
                         /\ ((v.ix - nonRepeaters) % Repeaters) + nonRepeaters = j)

\* Entry j of the delivered array is what the claim says of slot j.
SlotAsClaimed(j) ==
    LET e == bulkOut.varbinds[j + 1] IN
    IF j < nonRepeaters
    THEN ~e.list /\ e.vb = bulkReply[j + 1]
    ELSE e.list /\ e.vbs = SlotOf(j)

\* C8 as stated: with n non-repeaters and r >= 1 repeaters, a reply that
\* passes validation is delivered as an array holding reply varbind i at
\* every entry i < n and, for each of the r repeater slots j, the list of the
\* reply varbinds at indices i >= n with (i - n) mod r + n = j.
C8_AllSlotsDelivered ==
    (bulkOut.kind = "ok" /\ Repeaters >= 1) =>
        /\ Len(bulkOut.varbinds) = Len(bulkReq)
        /\ \A j \in 0 .. Len(bulkReq) - 1 : SlotAsClaimed(j)

\* C8 amended: the delivered array has min(L, n + r) entries, and each entry
\* it has is the reply varbind (below n) or the slot's list (from n on).
C8_DeliveredSlots ==
    (bulkOut.kind = "ok" /\ Repeaters >= 1) =>
        /\ Len(bulkOut.varbinds) = Min(Len(bulkReply), Len(bulkReq))
        /\ \A j \in 0 .. Len(bulkOut.varbinds) - 1 : SlotAsClaimed(j)

C8_Witness ==
    /\ bulkOut.kind = "ok"
    /\ Repeaters = 2
    /\ Len(bulkReply) = 4
    /\ Len(bulkOut.varbinds[1].vbs) = 2
    /\ Len(bulkOut.varbinds[2].vbs) = 2
    /\ bulkOut.varbinds[2].vbs[2] = bulkReply[4]

\* C9: for any nonRepeaters, request length and reply length, the feed
\* callback invokes the caller's callback exactly once, with the error or
\* with the array: it never returns or throws without having called it.
C9_CallbackExactlyOnce == bulkOut.kind \in {"none", "ok", "error"}

(***************************************************************************)
(*                     Claims on the Report handling                       *)
(***************************************************************************)
\* The ids whose registered request cannot be re-sent on a Report.
NoResendIds ==
    {id \in Ids : reqs[id] # 0 /\
        (~req[reqs[id]].originalPdu \/ ~req[reqs[id]].allowReport)}

Reports == {m \in Msgs : m.kind = "report"}

\* onMsg for Report m matched to id: the request is not re-sent and its
\* callback, and no other, is called once.
OneFailure(id, m) ==
    LET T == onMsg(Cur, id, m, 0, FALSE) IN
    /\ T.nreq = nreq
    /\ T.reqs[id] = 0
    /\ Len(T.dlv) = 1
    /\ T.dlv[1].r = reqs[id]
    /\ T.dlv[1].out.name = "ResponseInvalidError"

ReportError(id, m) == onMsg(Cur, id, m, 0, FALSE).dlv[1].out

\* C11 as stated: a Report matched to a request without originalPdu or with
\* allowReport false gives the caller exactly one failure and no re-send;
\* the failure is the USM error named by the numeric suffix when the first
\* varbind's OID is under the subtree UsmStatsBase, and the generic
\* 'Unexpected Report PDU' error otherwise.
C11_NamedOrGeneric ==
    \A id \in NoResendIds, m \in Reports :
        /\ OneFailure(id, m)
        /\ IF m.oid # <<>> /\ oidInSubtree(UsmStatsBase, m.oid)
           THEN \E k \in DOMAIN UsmStats :
                    /\ Len(split(m.oid)) > Len(split(UsmStatsBase))
                    /\ split(m.oid)[Len(split(UsmStatsBase)) + 1] = k
                    /\ ReportError(id, m).message = UsmStats[k]
           ELSE ReportError(id, m).message = "Unexpected Report PDU"

\* C11 amended: the failure has code EAuthFailure (5) when the OID string
\* begins with UsmStatsBase, its message being the USM name of k when the
\* OID is UsmStatsBase.k or UsmStatsBase.k.0 with k in 1..6 and 'Unexpected
\* Report PDU' otherwise; it is 'Unexpected Report PDU' with code
\* EUnexpectedReport (11) when the OID does not begin with UsmStatsBase or
\* the report has no varbind.
C11_ReportFailure ==
    \A id \in NoResendIds, m \in Reports :
        /\ OneFailure(id, m)
        /\ IF StartsWith(m.oid, UsmStatsBase)
           THEN /\ ReportError(id, m).code = 5
                /\ IF \E k \in DOMAIN UsmStats :
                          m.oid \in {UsmStatsBase \o <<Dot>> \o k,
                                     UsmStatsBase \o <<Dot>> \o k \o <<Dot, 48>>}
                   THEN \E k \in DOMAIN UsmStats :
                           /\ StartsWith(m.oid, UsmStatsBase \o <<Dot>> \o k)
                           /\ ReportError(id, m).message = UsmStats[k]
                   ELSE ReportError(id, m).message = "Unexpected Report PDU"
           ELSE /\ ReportError(id, m).code = 11
                /\ ReportError(id, m).message = "Unexpected Report PDU"

\* A request re-sent without permission for a further report is registered,
\* and a Report with usmStatsUnknownUserNames.0 fails it by that name.
C11_Witness ==
    \E id \in NoResendIds :
        /\ req[reqs[id]].originalPdu
        /\ parent[reqs[id]] # 0
        /\ ReportError(id, Msg("report", 1, 1,
                               UsmStatsBase \o <<Dot, 51, Dot, 48>>, "none")).message
              = "Unknown User Name"

(***************************************************************************)
(*              Claims on version and community mismatches                 *)
(***************************************************************************)
\* onMsg for a reply of kind k matched to id: the request is unregistered,
\* its timer is cleared, no request is sent, and its callback alone is
\* called, once, with a ResponseInvalidError of the given code.  The feed
\* callback is reached only through onSimpleGetResponse, which delivers
\* RequestFailedError, the varbinds, or the feed callback's own error.
MismatchHandled(id, k, code) ==
    LET r == reqs[id]
        T == onMsg(Cur, id, Msg(k, 0, 0, <<>>, "none"), 0, FALSE)
    IN  /\ T.reqs[id] = 0
        /\ T.req[r].phase # "timer"
        /\ T.nreq = nreq
        /\ T.sent = sent
        /\ Len(T.dlv) = 1
        /\ T.dlv[1].r = r
        /\ T.dlv[1].out.name = "ResponseInvalidError"
        /\ T.dlv[1].out.code = code

\* The part of C12 about the handling of the reply: a matched reply with
\* another version is delivered as EVersionNoMatch (9), and a matched
\* community-based reply with another community as ECommunityNoMatch (10),
\* without the feed callback.
C12_MismatchHandled ==
    \A id \in Ids :
        reqs[id] # 0 =>
            /\ MismatchHandled(id, "versionNoMatch", 9)
            /\ version # Version3 => MismatchHandled(id, "communityNoMatch", 10)

\* C12: a matched reply with another version or another community is
\* delivered as the mismatch error without the feed callback, and the
\* request is not retried: once the mismatch has been delivered the request
\* is not in the registry and no retry timer is armed for it.
C12_MismatchIsFinal ==
    /\ C12_MismatchHandled
    /\ \A r \in Created :
          cbs[r].mismatch => (~Registered(Cur, r) /\ req[r].phase # "timer")

(***************************************************************************)
(*           Claims on the feed callbacks of get, getNext, set             *)
(***************************************************************************)
SameLength == Len(call.reply) = Len(call.req)

\* Some position's OID in the reply differs from the request's.
OidDiffers == \E i \in 1 .. Len(call.req) : call.req[i] # call.reply[i].oid

\* C13: for get, getNext and set a reply with another varbind count is
\* delivered as an invalid-response failure without varbinds; a successful
\* delivery is the list of the reply's varbinds, unchanged and as long as
\* the request; get and set fail when reportOidMismatchErrors is set and an
\* OID differs; getNext delivers error sentinels as they are, unchecked.
C13_SimpleFeed ==
    (call.fn \in {"get", "getNext", "set"} /\ result.kind # "none") =>
        /\ result.kind \in {"ok", "error"}
        /\ ~SameLength =>
              (result.kind = "error" /\ result.varbinds = <<>>)
        /\ result.kind = "ok" =>
              (result.varbinds = call.reply /\ Len(result.varbinds) = Len(call.req))
        /\ (call.fn \in {"get", "set"} /\ SameLength
              /\ call.reportOidMismatchErrors /\ OidDiffers) =>
              result.kind = "error"
        /\ (call.fn \in {"get", "set"} /\ SameLength
              /\ ~(call.reportOidMismatchErrors /\ OidDiffers)) =>
              result.kind = "ok"
        /\ (call.fn = "getNext" /\ SameLength
              /\ \A i \in 1 .. Len(call.reply) : call.reply[i].err) =>
              result.kind = "ok"

\* getNext, in-order checking on, delivers a sentinel and a value.
C13_Witness ==
    /\ call.fn = "getNext"
    /\ ~call.backwardsGetNexts
    /\ result.kind = "ok"
    /\ Len(result.varbinds) = 2
    /\ result.varbinds[1].err
    /\ ~result.varbinds[2].err

(***************************************************************************)
(*                    Claims on inform and trap                            *)
(***************************************************************************)
\* C14: inform on an SNMPv1 session calls the caller's callback once, with a
\* RequestInvalidError, and does nothing else: nothing is sent, registered or
\* armed and the count is unchanged.
C14_InformV1Refused ==
    version = Version1 =>
        \A id \in Ids, throws \in BOOLEAN :
            LET T == inform(Cur, id, throws) IN
            /\ Len(T.dlv) = 1
            /\ T.dlv[1].out.name = "RequestInvalidError"
            /\ [T EXCEPT !.dlv = <<>>] = Cur

\* An SNMPv1 session with a request outstanding and its timer armed, on
\* which inform is refused.
C14_Witness ==
    /\ version = Version1
    /\ reqCount = 1
    /\ \E r \in Created : req[r].phase = "timer"
    /\ inform(Cur, 0, FALSE).dlv # <<>>

IsTrap(q) == q.pduClass = "Trap"

\* C15: a trap is never an entry of the registry and never has a timer; the
\* steps that create and complete it leave the registry, the count and the
\* socket's ref state as they are; its callback is called once, when the
\* transmission has completed, and nothing happens to it afterwards.
C15_TrapIsFireAndForget ==
    [][\A r \in ReqIdx :
          /\ IsTrap(req'[r]) =>
                /\ req'[r].phase \in {"sending", "gone"}
                /\ \A id \in Ids : reqs'[id] # r
                /\ cbs'[r].n = (IF req'[r].phase = "gone" THEN 1 ELSE 0)
                /\ ~cbs'[r].reg /\ ~cbs'[r].timedOut
                /\ sent'[r] <= cbs'[r].n
          /\ (IsTrap(req'[r]) /\ req'[r] # req[r]) =>
                /\ reqs' = reqs
                /\ reqCount' = reqCount
                /\ refd' = refd
                /\ \A q \in ReqIdx \ {r} : req'[q] = req[q] /\ cbs'[q] = cbs[q]
          /\ (IsTrap(req[r]) /\ req[r].phase = "gone") =>
                (req'[r] = req[r] /\ cbs'[r] = cbs[r] /\ sent'[r] = sent[r])
      ]_vars

\* A trap has been transmitted and its callback called while a request is
\* outstanding.
C15_Witness ==
    /\ reqCount = 1
    /\ refd
    /\ \E r \in Created :
          /\ IsTrap(req[r])
          /\ req[r].phase = "gone"
          /\ sent[r] = 1
          /\ cbs[r].n = 1

\* C16: every inform and trap datagram goes to the trap port and every
\* other request datagram to the port, for every version: a Req object that
\* is being sent, or waits to be retransmitted, has the port of its PDU's
\* class.  (A discovery request is counted with the operation it is for.)
C16_Ports ==
    \A r \in Created :
        req[r].phase \in {"sending", "timer"} =>
            req[r].port = (IF req[r].pduClass \in {"InformRequest", "Trap"}
                           THEN "trapPort" ELSE "port")

\* C17: every ResponseInvalidError a feed callback delivers carries a
\* defined numeric code, one of the values of ResponseInvalidCode.
C17_CodesDefined ==
    result.kind = "error" =>
        /\ CodeOf(result.code) # undefined
        /\ \E k \in DOMAIN ResponseInvalidCode :
              CodeOf(result.code) = ResponseInvalidCode[k]

\* C18: every varbind subtreeCb passes to the feed callback lies inside the
\* base OID of the walk, wherever the out-of-subtree varbinds are in the
\* batch, and a batch with an out-of-subtree varbind returns the stop
\* signal to the walk driver.
C18_SubtreeFiltered ==
    /\ \A k \in 1 .. Len(result.fed) :
          oidInSubtree(call.baseOid, result.fed[k].oid)
    /\ (\E k \in 1 .. Len(call.batch) :
           ~oidInSubtree(call.baseOid, call.batch[k].oid)) => result.stop

\* The OID is rowOid followed by <c>.<suffix> with c > 0.
RowColumn(rowOid, oid) ==
    IF StartsWith(oid, rowOid)
    THEN LET m == match(SubSeq(oid, Len(rowOid) + 1, Len(oid))) IN
         [m EXCEPT !.ok = m.ok /\ Positive(m.col)]
    ELSE [ok |-> FALSE, col |-> <<>>, row |-> <<>>]

\* The table after the varbinds from position i on, up to the first
\* sentinel: each value at table[suffix][key], key the configured name of
\* the column if there is one and the column index otherwise.
RECURSIVE TableWith(_, _, _, _)
TableWith(table, R, varbinds, i) ==
    IF i > Len(varbinds) \/ varbinds[i].err THEN table
    ELSE LET rc      == RowColumn(R.rowOid, varbinds[i].oid)
             colInfo == IF rc.col \in DOMAIN R.columns
                        THEN R.columns[rc.col] ELSE NoColInfo
             key     == IF colInfo.name # <<>> THEN colInfo.name ELSE rc.col
         IN  TableWith(IF rc.ok
                       THEN Store(table, rc.row, key,
                                  thisValue(colInfo, varbinds[i].value))
                       ELSE table,
                       R, varbinds, i + 1)

\* C19: for each non-sentinel walked varbind whose OID is rowOid followed by
\* <c>.<suffix> with c > 0, table() stores the value at table[suffix][key],
\* key being the configured name of column c or else c; varbinds not of
\* that form add nothing.
C19_TableStores ==
    [][(call.fn = "table" /\ call'.n = call.n + 1) =>
           result'.req.table =
               TableWith(result.req.table, result.req, call'.batch, 1)]_vars

\* The position of the first error sentinel of varbinds, 0 if there is none.
FirstSentinel(varbinds) ==
    IF \E k \in 1 .. Len(varbinds) : varbinds[k].err
    THEN CHOOSE k \in 1 .. Len(varbinds) :
             varbinds[k].err /\ \A j \in 1 .. k - 1 : ~varbinds[j].err
    ELSE 0

\* What a table or tableColumns operation does once varbinds, handed over
\* in this step, has an error sentinel: the error of the first sentinel is
\* recorded, the accumulator holds the values of the varbinds before it and
\* nothing of it or of a later one, and stop is returned to the walk; and
\* while an error is recorded no batch is taken, the accumulator and the
\* error stay as they are, and the final callback has an error, not a table.
SentinelStops(varbindsOf(_, _)) ==
    call'.fn \in {"table", "tableColumns"} =>
        /\ call'.n = call.n + 1 =>
              LET varbinds == varbindsOf(call', result')
                  k        == FirstSentinel(varbinds)
              IN  k > 0 =>
                    /\ result'.req.error =
                           RequestFailedError(varbindError(varbinds[k]))
                    /\ result'.req.table =
                           reqFeedCb(call.fn, result.req,
                                     SubSeq(varbinds, 1, k - 1), FALSE).req.table
                    /\ result'.stop
                    /\ call'.phase = "stopped"
        /\ result.req.error.name # "none" =>
              /\ call'.n = call.n
              /\ result'.req.table = result.req.table
              /\ result'.req.error = result.req.error
              /\ call'.phase = "done"
              /\ result'.out.kind = "error"

Walked(c, r) == c.batch
Fed(c, r) == r.fed

\* C20 as stated, for the varbinds of the batches the walk delivers.
C20_SentinelWalked == [][SentinelStops(Walked)]_vars

\* C20, for the varbinds that reach the table builder: once one of them is
\* an error sentinel, that first error is recorded, no value of it or of a
\* later varbind is added to the accumulator, the walk is told to stop, and
\* the final callback receives an error and never a table.
C20_SentinelStopsTable == [][SentinelStops(Fed)]_vars

\* A table operation has stored a value, then met a sentinel, and its final
\* callback has been called with the recorded error.
C20_Witness ==
    /\ call.fn \in {"table", "tableColumns"}
    /\ call.phase = "done"
    /\ DOMAIN result.req.table # {}
    /\ FirstSentinel(result.fed) = 2
    /\ result.out.kind = "error"
    /\ result.out.error.name = "RequestFailedError"
    /\ result.out.error = result.req.error

\* C21: tableColumns walks one column at a time into the same accumulator
\* and, for every list of requested columns, calls the response callback
\* once: whenever no walk of the operation is in progress the callback has
\* been called, with the accumulated table only when no column is left to
\* walk, or with an error.
C21_TableColumnsCallsBack ==
    call.fn = "tableColumns" =>
        /\ call.phase \notin {"walking", "stopped"} =>
              result.out.kind \in {"table", "error"}
        /\ call.phase \in {"walking", "stopped"} => result.out.kind = "none"
        /\ result.out.kind = "table" =>
              /\ Len(result.req.columns) = 0
              /\ result.out.table = result.req.table

(***************************************************************************)
(*                     Claims on the OID predicates                        *)
(***************************************************************************)
\* The positions at which both OIDs have a component and these differ.
Differing(a, b) ==
    {k \in 1 .. Min(Len(a), Len(b)) : a[k] # b[k]}

FollowsAsClaimed(a, b) ==
    IF Differing(a, b) = {} THEN TRUE
    ELSE LET k == CHOOSE d \in Differing(a, b) :
                      \A e \in Differing(a, b) : d <= e
         IN  b[k] > a[k]

\* C22: oidFollowsOid(a, b) compares the components left to right as
\* unsigned integers: true if b's is greater at the first difference, false
\* if it is smaller, true when either OID ends before any difference; true
\* for ('1.3.6.1.2', '1.3.6.1.3') and false with the arguments swapped.
C22_FollowsByComponents ==
    (call.fn = "oidFollowsOid" /\ result.kind = "value") =>
        /\ result.value = FollowsAsClaimed(call.a, call.b)
        /\ (call.a = <<1, 3, 6, 1, 2>> /\ call.b = <<1, 3, 6, 1, 3>>)
               => result.value
        /\ (call.a = <<1, 3, 6, 1, 3>> /\ call.b = <<1, 3, 6, 1, 2>>)
               => ~result.value
        /\ (call.a = call.b) => result.value

\* '1.10' has been found to follow '1.2': the components are compared as
\* numbers, not as text.
C22_Witness ==
    /\ call.fn = "oidFollowsOid"
    /\ call.a = <<1, 2>>
    /\ call.b = <<1, 10>>
    /\ result.kind = "value"
    /\ result.value

\* C23: oidInSubtree(base, candidate) is true if and only if candidate has
\* at least as many components as base and each component of base equals
\* candidate's at the same position; it is reflexive, true for
\* ('1.3.6.1.2.1.1', '1.3.6.1.2.1.1.3.0') and false for
\* ('1.3.6.1.2.1.1', '1.3.6.1.2.1.2.0').
C23_InSubtree ==
    (call.fn = "oidInSubtree" /\ result.kind = "value") =>
        /\ result.value =
              (/\ Len(call.b) >= Len(call.a)
               /\ \A k \in 1 .. Len(call.a) : call.b[k] = call.a[k])
        /\ (call.a = call.b) => result.value
        /\ (/\ call.a = <<1, 3, 6, 1, 2, 1, 1>>
            /\ call.b = <<1, 3, 6, 1, 2, 1, 1, 3, 0>>) => result.value
        /\ (/\ call.a = <<1, 3, 6, 1, 2, 1, 1>>
            /\ call.b = <<1, 3, 6, 1, 2, 1, 2, 0>>) => ~result.value

\* '1.10' has been found outside the subtree of '1.1', whose text it
\* begins with.
C23_Witness ==
    /\ call.fn = "oidInSubtree"
    /\ call.a = <<1, 1>>
    /\ call.b = <<1, 10>>
    /\ result.kind = "value"
    /\ ~result.value

(***************************************************************************)
(*                  Claims on the decoding of 64-bit values                *)
(***************************************************************************)
\* The last 8 bytes of the buffer, zero bytes in front of a shorter one.
Last8(buf) ==
    LET b == PadTo8(buf) IN SubSeq(b, Len(b) - 7, Len(b))

Negative(n) == n.w1 < 0 \/ (n.w1 = 0 /\ n.w0 < 0)

\* n is the unsigned big-endian integer of the 8 bytes b: its high word,
\* taken as unsigned, times 2^32 plus its low word, taken as unsigned (one
\* more in w1 and the signed low word in w0 when the low word's top bit is
\* set).  No [w1, w0] of 32-bit words stands for a value of 2^63 or more.
IsUnsignedOf(n, b) ==
    /\ b[1] < 128
    /\ n.w1 = b[1] * 16777216 + b[2] * 65536 + b[3] * 256 + b[4]
                  + (IF b[5] >= 128 THEN 1 ELSE 0)
    /\ n.w0 = (IF b[5] >= 128 THEN b[5] - 256 ELSE b[5]) * 16777216
                  + b[6] * 65536 + b[7] * 256 + b[8]

\* C24: decoding a Counter64 value or a 'uint64' column yields the unsigned
\* big-endian integer of the last 8 bytes (shorter inputs padded with zero
\* bytes in front), high * 2^32 + low with both words unsigned, and never a
\* negative number, whatever the most significant bit.
C24_UnsignedDecode ==
    result.kind = "value" =>
        /\ ~Negative(result.n)
        /\ IsUnsignedOf(result.n, Last8(call.buf))

(***************************************************************************)
(*                 Claims on the life of a registered request              *)
(***************************************************************************)
\* C25: a registered request reaches a terminal state and is then absent
\* from the registry, also when a retransmission started by its timer fails
\* to send: no request stays registered with neither its timer armed nor a
\* send in flight, from which state no event of its own would ever end it.
C25_NoLimbo ==
    \A r \in Created :
        Registered(Cur, r) => req[r].phase \in {"timer", "sending"}

\* A request is outstanding from the call of the operation until its
\* callback: its datagram is in flight or its timer is armed.
Outstanding(r) == req[r].phase \in {"sending", "timer"}

\* C26: no two requests outstanding at the same time share a request id.
C26_UniqueIds ==
    \A r, q \in Created :
        (r # q /\ Outstanding(r) /\ Outstanding(q)) => req[r].id # req[q].id

(***************************************************************************)
(*                 Claims on the order of a GetBulk reply                  *)
(***************************************************************************)
\* The OID reply varbind i (counted from 1) is compared with: the request
\* OID of its slot in the first round, the reply varbind one round earlier
\* in the same repeater bucket afterwards.
Before(i) ==
    IF i <= Len(bulkReq) THEN bulkReq[i] ELSE bulkReply[i - Repeaters].oid

\* The reply varbinds the order is required of: those of the first round
\* and, when there are repeaters, those after it.
Compared ==
    {i \in 1 .. Len(bulkReply) : i <= Len(bulkReq) \/ Repeaters >= 1}

OutOfOrder(i) ==
    ~bulkReply[i].err /\ ~oidFollowsOid(Before(i), bulkReply[i].oid)

Ordered == \A i \in Compared : ~OutOfOrder(i)

\* An error sentinel whose OID is not the one it is compared with.
Mismatch(i) == bulkReply[i].err /\ Before(i) # bulkReply[i].oid

\* With reportOidMismatchErrors set, a mismatching sentinel stands before
\* the first varbind that is out of order.
MismatchFirst ==
    /\ reportOidMismatchErrors
    /\ \E j \in Compared :
          Mismatch(j) /\ \A i \in Compared : OutOfOrder(i) => j < i

\* C27 as stated: with backwardsGetNexts off, a reply is delivered as
\* success only if every non-sentinel varbind follows the OID before it in
\* its slot, and any violation delivers the out-of-order error and no
\* result; with backwardsGetNexts on no order is required.
C27_OutOfOrderRejected ==
    bulkOut.kind # "none" =>
        IF backwardsGetNexts
        THEN bulkOut.code # "EOutOfOrder"
        ELSE /\ bulkOut.kind = "ok" => Ordered
             /\ ~Ordered => (bulkOut.kind = "error"
                                /\ bulkOut.code = "EOutOfOrder"
                                /\ bulkOut.varbinds = <<>>)

\* C27 amended: a violation delivers a ResponseInvalidError and no result,
\* the out-of-order error unless reportOidMismatchErrors is set and the
\* mismatch of an earlier sentinel's OID is reported first.
C27_OrderEnforced ==
    bulkOut.kind # "none" =>
        IF backwardsGetNexts
        THEN bulkOut.code # "EOutOfOrder"
        ELSE /\ bulkOut.kind = "ok" => Ordered
             /\ ~Ordered =>
                   /\ bulkOut.kind = "error"
                   /\ bulkOut.varbinds = <<>>
                   /\ bulkOut.code = (IF MismatchFirst
                                      THEN "EReqResOidNoMatch"
                                      ELSE "EOutOfOrder")

\* With backwardsGetNexts off, a reply whose first round is in order and
\* whose second round steps back in a repeater bucket has been refused.
C27_Witness ==
    /\ ~backwardsGetNexts
    /\ Repeaters = 2
    /\ Len(bulkReply) = 4
    /\ \A i \in 1 .. 3 : ~OutOfOrder(i) /\ ~bulkReply[i].err
    /\ OutOfOrder(4)
    /\ bulkOut.kind = "error"
    /\ bulkOut.code = "EOutOfOrder"

\* C28: a v3 operation issued while the session holds no security parameters
\* creates a discovery request with the original PDU and allowReport set,
\* whose message carries no security parameters; one issued while the
\* session holds parameters creates the request itself, built with exactly
\* those parameters; the re-send a Report causes is built with the
\* parameters that Report has just stored; and parameters once stored are
\* never cleared.  (The operations are the requests, which all go through
\* simpleGet; a trap, which awaits no reply, is not one of them.)
Issued(r) ==
    /\ version = Version3
    /\ nreq = r - 1
    /\ nreq' = r
    /\ req'[r].phase = "sending"
    /\ req'[r].kind # "trap"

RECURSIVE Power(_, _)
Power(x, k) == IF k = 0 THEN Unit ELSE Times(x, Power(x, k - 1))

SameRatio(x, y) == x.n * y.d = y.n * x.d

NotMore(x, y) == x.n * y.d <= y.n * x.d

WaitOf(k) == Times(Ratio(timeout, 1), Power(backoff, k - 1))

Armed(r) == req[r].phase = "timer"

C29_BackoffWaits ==
    /\ [](/\ AtLeastOne(backoff)
          /\ \A b \in BackoffOptions :
                SessionBackoff(b) = (IF AtLeastOne(b) THEN b ELSE Ratio(1, 1))
          /\ \A r \in Created :
                Armed(r) => /\ SameRatio(req[r].timer, WaitOf(sent[r]))
                            /\ SameRatio(req[r].timeout, WaitOf(sent[r] + 1)))
    /\ [][\A r \in Created :
             (Armed(r)' /\ sent'[r] = sent[r] + 1 /\ sent[r] >= 1) =>
                 NotMore(req[r].timer, req'[r].timer)]_vars

\* A session with timeout 100 and backoff 3/2 has armed the timer of a
\* request's third transmission with 225 ms.
C29_Witness ==
    /\ timeout = 100
    /\ backoff = Ratio(3, 2)
    /\ \E r \in Created :
          /\ Armed(r)
          /\ sent[r] = 3
          /\ SameRatio(req[r].timer, Ratio(225, 1))

\* C30: reqCount is the number of entries of the registry and is never
\* negative; in every state, registering a Req object adds one to it
\* exactly when that stores the object under an id that was free and leaves
\* it and the registry alone when the id is taken (a retransmission's
\* re-registration), and unregistering an id takes one from it exactly when
\* that removes an entry.
Entries == {id \in Ids : reqs[id] # 0}

Alive == {r \in Created : req[r].phase \in {"idle", "sending", "timer"}}

C30_CountIsRegistrySize ==
    /\ reqCount = Cardinality(Entries)
    /\ reqCount >= 0
    /\ \A r \in Alive :
          LET S == registerRequest(Cur, r)
              id == req[r].id
          IN  IF reqs[id] = 0
              THEN S.reqCount = reqCount + 1 /\ S.reqs[id] = r
              ELSE S.reqCount = reqCount /\ S.reqs = reqs
    /\ \A id \in Ids :
          LET S == unregisterRequest(Cur, id)
          IN  IF reqs[id] # 0
              THEN S.reqCount = reqCount - 1 /\ S.reqs[id] = 0
              ELSE S.reqCount = reqCount /\ S.reqs = reqs

\* Two requests are outstanding and one of them has been re-registered after
\* a retransmission: the count is 2.
C30_Witness ==
    /\ reqCount = 2
    /\ Cardinality(Entries) = 2
    /\ \E r \in Created :
          /\ Registered(Cur, r)
          /\ req[r].phase = "timer"
          /\ sent[r] = 2

\* A datagram whose id has no entry in the registry changes nothing: no
\* callback, the same registry, count, timers and security parameters.
UnmatchedIgnored ==
    \A id \in Ids, m \in Msgs, nid \in Ids, throws \in BOOLEAN :
        reqs[id] = 0 => onMsg(Cur, id, m, nid, throws) = Cur

\* The Req object has had its response callback called: its request is
\* completed, timed out or cancelled.
Completed(r) == r # 0 /\ cbs[r].n >= 1

\* C31: a datagram whose request id belongs to no registry entry, or to a
\* request that is already completed, timed out or cancelled, invokes no
\* callback and leaves the registry, the outstanding count, the timers and
\* the stored security parameters as they are.
C31_StrayDatagramIgnored ==
    \A id \in Ids, m \in Msgs, nid \in Ids, throws \in BOOLEAN :
        (reqs[id] = 0 \/ Completed(reqs[id])) =>
            onMsg(Cur, id, m, nid, throws) = Cur

\* C32: a request re-sent because of a Report (built with the parameters
\* that Report stored) has allowReport set exactly when the Report's boots
\* and time are both zero; a Report for a re-sent request whose allowReport
\* is not set gives the caller one failure and creates no request; and every
\* step that re-sends does so for a request that allowed it, which, if it
\* was itself a re-send, was caused by a Report with zero boots and time.
Resent == {r \in Alive : parent[r] # 0}

ZeroReport(r) ==
    req[r].msgSecurityParameters.boots = 0 /\ req[r].msgSecurityParameters.time = 0

ReportMsgs == {m \in Msgs : m.kind = "report"}

C32_ResendOnlyOnTimeSync ==
    /\ [](\A r \in Resent :
             /\ req[r].allowReport = ZeroReport(r)
             /\ (Registered(Cur, r) /\ ~req[r].allowReport) =>
                   \A m \in ReportMsgs, nid \in Ids :
                       LET S == onMsg(Cur, req[r].id, m, nid, FALSE)
                       IN  /\ ~Resends(Cur, req[r].id, m)
                           /\ S.nreq = nreq
                           /\ Len(S.dlv) = 1
                           /\ S.dlv[1].r = r
                           /\ S.dlv[1].out.name = "ResponseInvalidError")
    /\ [][\A r \in ReqIdx :
             (nreq = r - 1 /\ nreq' = r /\ parent'[r] # 0) =>
                 LET p == parent'[r]
                 IN  /\ req[p].originalPdu /\ req[p].allowReport
                     /\ parent[p] # 0 => ZeroReport(p)]_vars

\* A request re-sent after a Report with zero boots and time was re-sent
\* again after a Report with non-zero boots or time: the second re-send is
\* registered and allows no further Report.
C32_Witness ==
    \E r \in Resent :
        /\ parent[parent[r]] # 0
        /\ Registered(Cur, r)
        /\ ~req[r].allowReport
        /\ ~ZeroReport(r)

=============================================================================
